---- MODULE Spec2Model ----
(***************************************************************************)
(* Smart File Organizer: the organization pipeline (FileOrganizer), the    *)
(* operation ledger (Database) and the history/undo dialog (HistoryViewer).*)
(*                                                                         *)
(* One action per handler.  organize_file is one action: it is a blocking  *)
(* call, and the undo dialog runs in the GUI thread between such calls.    *)
(* Store failures (sqlite errors inside get_connection) and filesystem     *)
(* failures are inputs of the actions, drawn from the set `Faults`.        *)
(***************************************************************************)
EXTENDS Integers, Sequences, FiniteSets, TLC

\* ------------------------------------------------------------------ bounds
\* Number of organize_file / undo_operation invocations explored.
MaxCalls == 2
\* Length of the rule list explored.
MaxRules == 2
MaxSessions == 2

\* ------------------------------------------------------- program constants
\* AppConfig.max_file_size_mb (a Field with ge=1; the model runs with 1 MB).
max_file_size_mb == 1
\* 1024 * 1024 in the size check of organize_file.
MB == 1048576
\* LIMIT defaults of the ledger queries.
UndoableLimit == 50
HistoryLimit == 1000
SearchLimit == 100

\* ------------------------------------------------------------- the world
Files == {"f1", "f2", "f3", "f4"}
NoFile == "nofile"
\* Content digests: f1, f2 and f4 are byte-identical, f3 differs.
Sha256(f) == IF f = "f3" THEN "d2" ELSE "d1"
\* st_size: f3 is one byte over the limit, the others are exactly at it.
SizeOf(f) == IF f = "f3" THEN max_file_size_mb * MB + 1 ELSE max_file_size_mb * MB
Names == {"a.txt", "b.jpg", "big.mp4"}
\* The names a producer gives each file: f1 and f2 may collide on a.txt.  f1
\* and f2 are interchangeable, so f1 is written first.  f3 is in the watched
\* folder from the start.  f4 is a third copy, written only where three files
\* of one name are sent (ArriveSameName).
NamesOf(f) ==
  IF f = "f1" THEN {"a.txt"} ELSE IF f = "f3" THEN {"big.mp4"}
  ELSE IF f = "f2" THEN {"a.txt", "b.jpg"} ELSE {}
\* The names of the files handed to a stand-alone organizer.
ProbeNames ==
  Names \cup {"photo.jpg", "invoice.jpg", "project_report.txt", "notes.xyz"}
\* Path.suffix.lower() of the names of the model.
Suffix(name) ==
  IF name \in {"a.txt", "project_report.txt"} THEN ".txt"
  ELSE IF name \in {"b.jpg", "photo.jpg", "invoice.jpg"} THEN ".jpg"
  ELSE IF name = "big.mp4" THEN ".mp4"
  ELSE IF name = "notes.xyz" THEN ".xyz" ELSE ""
\* The words of KEYWORD_RULES and of the "*word*" patterns that the
\* lower-cased name contains.
NameWords(name) ==
  IF name = "photo.jpg" THEN {"photo"}
  ELSE IF name = "invoice.jpg" THEN {"invoice"}
  ELSE IF name = "project_report.txt" THEN {"project", "report"}
  ELSE {}

\* What a file holds: plain text, a JPEG image (the text an OCR pass reads
\* in it, the EXIF tags it carries), a video or something else.
LongText ==
  "lorem ipsum dolor sit amet consectetur adipiscing elit sed do eiusmod tempor incididunt ut labore et dolore magna aliqua"
Content(kind, text, exif) == [kind |-> kind, text |-> text, exif |-> exif]
ProbeFiles ==
  {"cam_gps", "cam", "gps", "img", "scan", "cam_scan", "cam_receipt",
   "doc_report", "doc_vacation", "doc_salary", "doc_mixed", "doc_hello",
   "doc_empty", "doc_long", "blob"}
ContentOf(f) ==
  IF f \in {"f1", "f2", "f4"} THEN Content("text", "invoice", {})
  ELSE IF f = "f3" THEN Content("video", "", {})
  ELSE IF f = "cam_gps" THEN Content("image", "", {"Make", "GPSInfo"})
  ELSE IF f = "cam" THEN Content("image", "", {"Make"})
  ELSE IF f = "gps" THEN Content("image", "", {"GPSInfo"})
  ELSE IF f = "img" THEN Content("image", "", {})
  ELSE IF f = "scan" THEN Content("image", LongText, {})
  ELSE IF f = "cam_scan" THEN Content("image", LongText, {"Make"})
  ELSE IF f = "cam_receipt" THEN Content("image", "invoice", {"Make"})
  ELSE IF f = "doc_report" THEN Content("text", "report", {})
  ELSE IF f = "doc_vacation" THEN Content("text", "vacation", {})
  ELSE IF f = "doc_salary" THEN Content("text", "salary", {})
  ELSE IF f = "doc_mixed" THEN Content("text", "vacation report", {})
  ELSE IF f = "doc_hello" THEN Content("text", "hello", {})
  ELSE IF f = "doc_empty" THEN Content("text", "", {})
  ELSE IF f = "doc_long" THEN Content("text", LongText, {})
  ELSE Content("other", "", {})
\* The terms of _extract_keywords that the lower-cased text contains.
TermsIn(text) ==
  IF text = "invoice" THEN {"invoice"}
  ELSE IF text = "report" THEN {"report"}
  ELSE IF text = "vacation" THEN {"vacation"}
  ELSE IF text = "salary" THEN {"salary"}
  ELSE IF text = "vacation report" THEN {"vacation", "report"}
  ELSE {}

None == "<None>"
\* An exception propagating out of a call.
Raised == "<raised>"
WatchDir == "watch"
DupDir == "watch/Duplicates"
OrganizedDir(category) == "Organized/" \o category

\* A path is directory, file name and the collision counter appended to the
\* stem (n = 0: no suffix; n = k: stem_k.ext).
MkPath(dir, name, n) == [dir |-> dir, name |-> name, n |-> n]
\* str(dest_path) of a failed entry is ""; Path("") is the working directory.
EmptyPath == MkPath("", "", 0)
\* Not in the filesystem: not yet created, and replaced by a move onto it.
Nowhere == MkPath("-", "-", 0)
Gone == MkPath("-", "gone", 0)
WatchPaths == {MkPath(WatchDir, nm, 0) : nm \in Names}

Faults == {"hash", "dup", "move", "log", "stat", "mark"}

VARIABLES
  loc,              \* filesystem: file -> path (Nowhere when absent)
  ops,              \* table file_operations, in insertion order
  nextId,           \* AUTOINCREMENT of file_operations
  index,            \* table duplicate_hashes: digest -> row
  canon,            \* (history) digest -> the file whose sighting created the row
  moved,            \* (history) entry id -> the file the logged operation moved
  stats,            \* table statistics for today: category -> row
  self_stats,       \* FileOrganizer.stats
  enable_duplicates,\* AppConfig.enable_duplicates
  table,            \* HistoryViewer.history_table: rows [id, button]
  last,             \* the most recent step and what it returned
  calls,            \* invocations so far; the clock of datetime.now()
  rules,            \* RulesEngine.rules
  rules_file,       \* organization_rules.json: Absent or the list saved
  ai_classification,\* AppConfig.ai_classification
  sessions,         \* table sessions, in insertion order
  current_session_id,\* MainWindow.current_session_id (0 for None)
  active,           \* the Stop button is enabled (and the Start button is not)
  monitoring,       \* MainWindow.monitor and organizer_thread are running
  batch_thread,     \* MainWindow.batch_thread
  inflight,         \* worker -> the organize_file call it is inside
  probe             \* a FileOrganizer built on its own and the file handed to it

\* What the rules dialog and the configuration own.
engine == <<rules, rules_file, ai_classification>>

\* What start_monitoring and stop_monitoring own.
window == <<sessions, current_session_id, active, monitoring, batch_thread>>

vars == <<loc, ops, nextId, index, canon, moved, stats, self_stats, enable_duplicates,
          table, last, calls, rules, rules_file, ai_classification,
          sessions, current_session_id, active, monitoring, batch_thread,
          inflight, probe>>

\* What the workers inside a call and the stand-alone organizer own.
aside == <<inflight, probe>>

\* ------------------------------------------------------------ filesystem
\* The regular file at path p, NoFile when there is none.
FileAt(l, p) == IF \E f \in Files : l[f] = p THEN CHOOSE f \in Files : l[f] = p ELSE NoFile

\* Path.exists(): Path("") is ".", which exists.
Exists(l, p) == p = EmptyPath \/ FileAt(l, p) # NoFile

\* shutil.move(src, dst) of a regular file: a file already at dst is replaced.
ShutilMove(l, f, dst) ==
  [g \in Files |-> IF g = f THEN dst ELSE IF l[g] = dst THEN Gone ELSE l[g]]

\* _get_unique_path returning the candidate whether or not it exists.
get_unique_path_overwriting(l, path) == path

\* The while loop of _get_unique_path, from `counter` on.
RECURSIVE UniqueProbe(_, _, _)
UniqueProbe(l, path, counter) ==
  LET new_path == MkPath(path.dir, path.name, counter)
  IN IF ~Exists(l, new_path) THEN new_path ELSE UniqueProbe(l, path, counter + 1)

get_unique_path(l, path) == IF ~Exists(l, path) THEN path ELSE UniqueProbe(l, path, 1)

\* ------------------------------------------------------------ classifier
EXTENSION_RULES(suffix) ==
  IF suffix \in {".jpg", ".jpeg", ".png", ".gif", ".bmp", ".svg", ".webp", ".ico"} THEN "Images"
  ELSE IF suffix \in {".pdf", ".docx", ".doc", ".txt", ".odt", ".rtf"} THEN "Documents"
  ELSE IF suffix \in {".xlsx", ".xls", ".csv", ".ods"} THEN "Spreadsheets"
  ELSE IF suffix \in {".pptx", ".ppt", ".odp"} THEN "Presentations"
  ELSE IF suffix \in {".mp4", ".avi", ".mkv", ".mov", ".wmv", ".flv", ".webm"} THEN "Videos"
  ELSE IF suffix \in {".mp3", ".wav", ".flac", ".aac", ".ogg", ".m4a", ".wma"} THEN "Audio"
  ELSE IF suffix \in {".zip", ".rar", ".7z", ".tar", ".gz", ".bz2"} THEN "Archives"
  ELSE IF suffix \in {".py", ".java", ".cpp", ".c", ".js", ".ts", ".html", ".css", ".php"} THEN "Code"
  ELSE IF suffix \in {".exe", ".msi", ".dmg", ".app", ".deb", ".rpm"} THEN "Executables"
  ELSE None

classify_by_extension(name) ==
  IF EXTENSION_RULES(Suffix(name)) # None THEN EXTENSION_RULES(Suffix(name)) ELSE "Other"

\* ----------------------------------------------------------- rules engine
\* A Rule object.  conditions is a dict: a function whose domain is the set
\* of keys present.
Rule(rule_id, name, pattern, target_folder, conditions, priority, enabled) ==
  [id |-> rule_id, name |-> name, pattern |-> pattern, target_folder |-> target_folder,
   conditions |-> conditions, priority |-> priority, enabled |-> enabled]

NoConditions == <<>>
Cond(key, value) == [k \in {key} |-> value]

\* The glob patterns of the model.  "*.ext" matches a name by its suffix,
\* "*word*" a name containing word, "*" every name; Path.match("") raises
\* ValueError.
PatternWord(pattern) ==
  IF pattern = "*screenshot*" THEN "screenshot"
  ELSE IF pattern = "*download*" THEN "download"
  ELSE IF pattern = "*invoice*" THEN "invoice" ELSE None
PatternSuffix(pattern) ==
  IF pattern = "*.txt" THEN ".txt" ELSE IF pattern = "*.jpg" THEN ".jpg"
  ELSE IF pattern = "*.mp4" THEN ".mp4" ELSE IF pattern = "*.pdf" THEN ".pdf" ELSE None

\* Rule._match_pattern (the glob branch; no pattern of the model has one of
\* the characters that select the regex branch).
match_pattern(pattern, name) ==
  IF pattern = "" THEN [raised |-> TRUE, value |-> FALSE]
  ELSE [raised |-> FALSE,
        value |-> IF pattern = "*" THEN TRUE
                  ELSE IF PatternSuffix(pattern) # None
                  THEN Suffix(name) = PatternSuffix(pattern)
                  ELSE PatternWord(pattern) \in NameWords(name)]

\* ContentAnalyzer._get_file_type.
FileTypeOf(suffix) ==
  IF suffix \in {".jpg", ".jpeg", ".png", ".gif", ".bmp", ".tiff"} THEN "image"
  ELSE IF suffix = ".pdf" THEN "pdf"
  ELSE IF suffix \in {".docx", ".doc", ".txt", ".odt"} THEN "document"
  ELSE IF suffix \in {".mp3", ".wav", ".flac", ".m4a"} THEN "audio"
  ELSE IF suffix \in {".mp4", ".avi", ".mkv", ".mov"} THEN "video"
  ELSE "unknown"
get_file_type(name) == FileTypeOf(Suffix(name))

\* A metadata dict: a function whose domain is the set of keys present.
Keys(S, value) == [k \in S |-> value[k]]

\* ContentAnalyzer._analyze_image: bytes that do not open as an image give
\* the empty result; camera_make and has_gps are set from the EXIF tags Make
\* and GPSInfo when present (has_gps only ever to True); the OCR text is read
\* only with ocr_enabled.
analyze_image(content, ocr_enabled) ==
  IF content.kind # "image" THEN [metadata |-> <<>>, content_text |-> ""]
  ELSE [metadata |->
          Keys({"format"} \cup (IF "Make" \in content.exif THEN {"camera_make"} ELSE {})
                 \cup (IF "GPSInfo" \in content.exif THEN {"has_gps"} ELSE {}),
               [format |-> "JPEG", camera_make |-> "Canon", has_gps |-> TRUE]),
        content_text |-> IF ocr_enabled THEN content.text ELSE ""]

\* ContentAnalyzer._analyze_document for a .txt file: the first 2000
\* characters (the texts of the model are shorter).
analyze_document(content) == [metadata |-> <<>>, content_text |-> content.text]

\* ContentAnalyzer._analyze_video: the size in MB (whole MB in the model) is
\* the only metadata, there is no text.
analyze_video(size) == [metadata |-> [size_mb |-> size \div MB], content_text |-> ""]

\* ContentAnalyzer._extract_keywords: the terms found, as a set.
extract_keywords(text) == IF text = "" THEN {} ELSE TermsIn(text)

\* ContentAnalyzer._suggest_category.
suggest_category(analysis) ==
  LET given(k) == k \in DOMAIN analysis.metadata /\ analysis.metadata[k] # ""
  IN IF analysis.keywords \cap {"invoice", "receipt", "payment", "bill", "tax"} # {}
     THEN "Finance"
     ELSE IF analysis.keywords \cap {"report", "presentation", "meeting", "project"} # {}
     THEN "Work"
     ELSE IF analysis.keywords \cap {"vacation", "family", "personal"} # {}
     THEN "Personal"
     ELSE IF given("camera_make") THEN "Photos"
     ELSE IF analysis.content_text # "" /\ Len(analysis.content_text) > 100
     THEN "Scanned Documents"
     ELSE None

\* The extractor analyze_file runs for the file type (the model has no pdf
\* and no audio name).
extract(file_type, content, size, ocr_enabled) ==
  IF file_type = "image" THEN analyze_image(content, ocr_enabled)
  ELSE IF file_type = "document" THEN analyze_document(content)
  ELSE IF file_type = "video" THEN analyze_video(size)
  ELSE [metadata |-> <<>>, content_text |-> ""]

\* result.update(...) on the initial result of analyze_file.
InitialResult(part) ==
  [content_text |-> part.content_text, metadata |-> part.metadata,
   keywords |-> {}, suggested_category |-> None]

\* `if result["content_text"]:` keywords and suggestion are computed only
\* when there is content text.
WithKeywords(result) ==
  IF result.content_text # ""
  THEN [result EXCEPT !.keywords = extract_keywords(result.content_text)]
  ELSE result
WithSuggestion(result) ==
  IF result.content_text # ""
  THEN [result EXCEPT !.suggested_category = suggest_category(result)]
  ELSE result

\* ContentAnalyzer.analyze_file on a file of the given name, content and
\* size.
analyze(name, content, size, ocr_enabled) ==
  WithSuggestion(WithKeywords(InitialResult(
    extract(get_file_type(name), content, size, ocr_enabled))))

\* analyze_file for the files of the watched folder: a text document yields
\* its text and, from the keyword "invoice" in it, the suggestion "Finance";
\* the same bytes under an image name cannot be opened as an image and give
\* the empty result (whether or not OCR is installed); a video gives no text.
analyze_file(f, name) == analyze(name, ContentOf(f), SizeOf(f), FALSE)

\* needle.lower() in text.lower() for the needles and texts of the model.
InText(needle, text) == needle = "" \/ needle = text \/ needle \in TermsIn(text)

\* Rule._check_conditions for the keys min_size_mb, max_size_mb, extensions,
\* contains_text and has_gps, on the metadata analyze_file returned.  Sizes are
\* compared in bytes (size / 2^20 < n  iff  size < n * 2^20).  The age keys
\* are read only for a rule whose pattern matched, which in the model is
\* never a rule carrying one.
check_conditions(conditions, f, name, metadata) ==
  LET has(k) == k \in DOMAIN conditions
      text == metadata.content_text
      gps_is(v) == "has_gps" \in DOMAIN metadata.metadata /\ metadata.metadata["has_gps"] = v
  IN IF has("min_size_mb") /\ SizeOf(f) < conditions["min_size_mb"] * MB THEN FALSE
     ELSE IF has("max_size_mb") /\ SizeOf(f) > conditions["max_size_mb"] * MB THEN FALSE
     ELSE IF has("extensions") /\ Suffix(name) \notin conditions["extensions"] THEN FALSE
     ELSE IF has("contains_text") /\ ~InText(conditions["contains_text"], text) THEN FALSE
     ELSE IF has("has_gps") /\ ~gps_is(conditions["has_gps"]) THEN FALSE
     ELSE TRUE

\* Rule.matches without the test of `enabled`.
matches_disabled_too(rule, f, name, metadata) ==
  IF match_pattern(rule.pattern, name).raised THEN FALSE
  ELSE IF ~match_pattern(rule.pattern, name).value THEN FALSE
  ELSE check_conditions(rule.conditions, f, name, metadata)

\* Rule.matches: a disabled rule never matches; an exception while matching
\* is logged and read as no match.
matches(rule, f, name, metadata) ==
  IF ~rule.enabled THEN FALSE
  ELSE IF match_pattern(rule.pattern, name).raised THEN FALSE
  ELSE IF ~match_pattern(rule.pattern, name).value THEN FALSE
  ELSE check_conditions(rule.conditions, f, name, metadata)

\* RulesEngine.apply_rules: the target folder of the first rule that matches,
\* None when there is none.
RECURSIVE apply_rules(_, _, _, _)
apply_rules(rs, f, name, metadata) ==
  IF rs = <<>> THEN None
  ELSE IF matches(Head(rs), f, name, metadata) THEN Head(rs).target_folder
  ELSE apply_rules(Tail(rs), f, name, metadata)

\* A sort that puts a rule in front of the rules of its own priority.
RECURSIVE InsertSorted_unstable(_, _)
InsertSorted_unstable(sorted, r) ==
  IF sorted = <<>> THEN <<r>>
  ELSE IF Head(sorted).priority > r.priority
  THEN <<Head(sorted)>> \o InsertSorted_unstable(Tail(sorted), r)
  ELSE <<r>> \o sorted

\* list.sort(key=lambda r: r.priority, reverse=True): stable, so rules of
\* equal priority keep the order they had in the list.
RECURSIVE InsertSorted(_, _)
InsertSorted(sorted, r) ==
  IF sorted = <<>> THEN <<r>>
  ELSE IF Head(sorted).priority >= r.priority
  THEN <<Head(sorted)>> \o InsertSorted(Tail(sorted), r)
  ELSE <<r>> \o sorted

RECURSIVE SortByPriority(_)
SortByPriority(rs) ==
  IF rs = <<>> THEN <<>>
  ELSE InsertSorted(SortByPriority(SubSeq(rs, 1, Len(rs) - 1)), rs[Len(rs)])

\* RulesEngine._create_default_rules.
DefaultRules ==
  << Rule(1, "Screenshots", "*screenshot*", "Screenshots", NoConditions, 10, TRUE),
     Rule(2, "Downloads", "*download*", "Downloads", NoConditions, 9, TRUE),
     Rule(3, "Invoices", "*invoice*", "Finance/Invoices", Cond("extensions", {".pdf"}), 8, TRUE),
     Rule(4, "Large Videos", "*.mp4", "Videos/Large", Cond("min_size_mb", 100), 7, TRUE),
     Rule(5, "Old Documents", "*.pdf", "Archive/Old", Cond("older_than_days", 365), 6, TRUE),
     Rule(6, "Photos with GPS", "*.jpg", "Photos/Locations", Cond("has_gps", TRUE), 5, TRUE) >>

\* The rules file: Absent, or holding the list json.dump wrote.
Absent == [exists |-> FALSE, data |-> <<>>]
FileOf(rs) == [exists |-> TRUE, data |-> rs]

\* RulesEngine.load_rules: the file's rules sorted, or the default rules
\* (which are saved) when there is no file.
load_rules(file) ==
  IF ~file.exists THEN [rules |-> DefaultRules, file |-> FileOf(DefaultRules)]
  ELSE [rules |-> SortByPriority(file.data), file |-> file]

\* save_rules appending the rules the file lacks instead of rewriting it.
save_rules_appending(rs, file, fail) ==
  LET Missing(r) == \A i \in 1..Len(file.data) : file.data[i] # r
  IN IF fail THEN file ELSE FileOf(file.data \o SelectSeq(rs, Missing))

\* RulesEngine.save_rules: a failure to write is logged and swallowed.
save_rules(rs, file, fail) == IF fail THEN file ELSE FileOf(rs)

\* RulesEngine.get_next_id.
Max(S) == CHOOSE x \in S : \A y \in S : y <= x
get_next_id(rs) == IF rs = <<>> THEN 1 ELSE Max({rs[i].id : i \in 1..Len(rs)}) + 1

\* RulesEngine.add_rule, remove_rule, update_rule, toggle_rule: the new list
\* (each then calls save_rules).
add_rule(rs, rule) == SortByPriority(Append(rs, rule))

remove_rule(rs, rule_id) == LET Keep(r) == r.id # rule_id IN SelectSeq(rs, Keep)

FirstWithId(rs, rule_id) ==
  IF \E i \in 1..Len(rs) : rs[i].id = rule_id
  THEN CHOOSE i \in 1..Len(rs) : rs[i].id = rule_id /\ \A j \in 1..(i - 1) : rs[j].id # rule_id
  ELSE 0

update_rule(rs, rule) ==
  LET i == FirstWithId(rs, rule.id)
  IN SortByPriority(IF i = 0 THEN rs ELSE [rs EXCEPT ![i] = rule])

toggle_rule(rs, rule_id) ==
  LET i == FirstWithId(rs, rule_id)
  IN IF i = 0 THEN rs ELSE [rs EXCEPT ![i].enabled = ~@]

\* ----------------------------------------------------------------- ledger
\* One row of file_operations as log_operation writes it; id, timestamp and
\* can_undo (column default 1) are filled in by the insert.
Entry(filename, original_path, destination_path, category, operation_type, file_size, file_hash, success, error_message) ==
  [id |-> 0, timestamp |-> 0, filename |-> filename,
   original_path |-> original_path, destination_path |-> destination_path,
   category |-> category, operation_type |-> operation_type,
   file_size |-> file_size, file_hash |-> file_hash,
   success |-> IF success THEN 1 ELSE 0, error_message |-> error_message,
   can_undo |-> 1]

\* log_operation whose insert is never committed: an id is returned, no row
\* is kept.
log_operation_uncommitted(o, nid, now, e, fail) ==
  IF fail
  THEN [ops |-> o, nextId |-> nid, id |-> -1]
  ELSE [ops |-> o, nextId |-> nid + 1, id |-> nid]

\* log_operation reporting a failed write as id 0.
log_operation_zero_on_failure(o, nid, now, e, fail) ==
  IF fail
  THEN [ops |-> o, nextId |-> nid, id |-> 0]
  ELSE [ops |-> Append(o, [e EXCEPT !.id = nid, !.timestamp = now]),
        nextId |-> nid + 1, id |-> nid]

\* Database.log_operation: the insert, or -1 when the transaction fails
\* (rolled back, exception swallowed).
log_operation(o, nid, now, e, fail) ==
  IF fail
  THEN [ops |-> o, nextId |-> nid, id |-> -1]
  ELSE [ops |-> Append(o, [e EXCEPT !.id = nid, !.timestamp = now]),
        nextId |-> nid + 1, id |-> nid]

\* ORDER BY timestamp DESC of a list kept in insertion order.
RECURSIVE Reverse(_)
Reverse(s) == IF s = <<>> THEN <<>> ELSE Append(Reverse(Tail(s)), Head(s))

\* LIMIT n.
Limit(s, n) == IF Len(s) <= n THEN s ELSE SubSeq(s, 1, n)

\* Database.get_operation_history.
get_operation_history(o, limit) == Limit(Reverse(o), limit)

\* Database.get_undoable_operations: WHERE can_undo = 1 AND success = 1.
Undoable(e) == e.can_undo = 1 /\ e.success = 1
get_undoable_operations(o, limit) == Limit(Reverse(SelectSeq(o, Undoable)), limit)

\* filename LIKE %term% for the terms a user types in the model: a whole file
\* name, which occurs in that name and in no other name of Names.
SearchTerms == {"a.txt"}
Like(term, filename) == term = filename

\* Database.search_operations.
search_operations(o, term, limit) ==
  LET Match(e) == Like(term, e.filename) IN Limit(Reverse(SelectSeq(o, Match)), limit)

\* mark_operation_undone whose UPDATE matches no row.
mark_operation_undone_no_row(o, operation_id, fail) == o

\* mark_operation_undone written as a toggle of can_undo.
mark_operation_undone_toggle(o, operation_id, fail) ==
  IF fail THEN o
  ELSE [i \in 1..Len(o) |->
          IF o[i].id = operation_id THEN [o[i] EXCEPT !.can_undo = 1 - @] ELSE o[i]]

\* Database.mark_operation_undone: UPDATE ... SET can_undo = 0 WHERE id = ?;
\* a failed transaction changes nothing and is swallowed.
mark_operation_undone(o, operation_id, fail) ==
  IF fail THEN o
  ELSE [i \in 1..Len(o) |-> IF o[i].id = operation_id THEN [o[i] EXCEPT !.can_undo = 0] ELSE o[i]]

\* Database.add_duplicate_hash: the upsert on duplicate_hashes.  A failed
\* transaction is rolled back and reported as False.
add_duplicate_hash(idx, file_hash, file_path, file_size, now, fail) ==
  IF fail THEN [index |-> idx, is_dup |-> FALSE]
  ELSE IF file_hash \in DOMAIN idx
  THEN [index |-> [idx EXCEPT ![file_hash].last_seen = now,
                              ![file_hash].duplicate_count = @ + 1],
        is_dup |-> TRUE]
  ELSE [index |-> [h \in DOMAIN idx \cup {file_hash} |->
                     IF h = file_hash
                     THEN [original_path |-> file_path, file_size |-> file_size,
                           first_seen |-> now, last_seen |-> now, duplicate_count |-> 0]
                     ELSE idx[h]],
        is_dup |-> FALSE]

\* update_statistics replacing the day's row instead of adding to it.
update_statistics_overwriting(st, category, files_count, total_size, duplicates, errors, fail) ==
  IF fail THEN st
  ELSE [c \in DOMAIN st \cup {category} |->
          IF c = category
          THEN [files_processed |-> files_count, total_size |-> total_size,
                duplicates_found |-> duplicates, errors_count |-> errors]
          ELSE st[c]]

\* Database.update_statistics: INSERT ... ON CONFLICT(date, category) DO UPDATE,
\* for today's date.  A failed transaction changes nothing and is swallowed.
update_statistics(st, category, files_count, total_size, duplicates, errors, fail) ==
  IF fail THEN st
  ELSE IF category \in DOMAIN st
  THEN [st EXCEPT ![category] =
          [files_processed |-> @.files_processed + files_count,
           total_size |-> @.total_size + total_size,
           duplicates_found |-> @.duplicates_found + duplicates,
           errors_count |-> @.errors_count + errors]]
  ELSE [c \in DOMAIN st \cup {category} |->
          IF c = category
          THEN [files_processed |-> files_count, total_size |-> total_size,
                duplicates_found |-> duplicates, errors_count |-> errors]
          ELSE st[c]]

\* compute_hash swallowing the exception, as is_duplicate does.
compute_hash_swallowing(f, fail) == IF fail THEN None ELSE Sha256(f)

\* DuplicateDetector.compute_hash: the digest, or the exception re-raised.
compute_hash(f, fail) == IF fail THEN Raised ELSE Sha256(f)

\* str(e) of the OSError raised by open()/read() and by shutil.move.
HashErrorText == "[Errno 5] Input/output error"
MoveErrorText == "[Errno 13] Permission denied"

\* -------------------------------------------------------------- organizer
\* FileClassifier.KEYWORD_RULES, in the order of the dict.
KEYWORD_RULES ==
  << [category |-> "Finance",
      keywords |-> {"invoice", "bill", "receipt", "payment", "transaction"}],
     [category |-> "Education",
      keywords |-> {"assignment", "homework", "project", "syllabus", "lecture"}],
     [category |-> "Work", keywords |-> {"report", "proposal", "meeting", "presentation"}],
     [category |-> "Personal", keywords |-> {"vacation", "family", "personal", "photo"}] >>

\* FileClassifier.classify_by_name: the first category of KEYWORD_RULES with a
\* keyword in the lower-cased name, None when there is none.
RECURSIVE FirstHit(_, _)
FirstHit(groups, words) ==
  IF groups = <<>> THEN None
  ELSE IF Head(groups).keywords \cap words # {} THEN Head(groups).category
  ELSE FirstHit(Tail(groups), words)

classify_by_name(name) == FirstHit(KEYWORD_RULES, NameWords(name))

\* `if category: return category` of classify, else the extension lookup.
OrByExtension(category, name) ==
  IF category # None THEN category ELSE classify_by_extension(name)

\* FileClassifier.classify(file, use_ai).
classify(name, use_ai) ==
  IF use_ai THEN OrByExtension(classify_by_name(name), name)
  ELSE classify_by_extension(name)

\* `if x:` on a string or None.
Truthy(x) == x # None /\ x # ""

\* `metadata or {}` for the metadata None of an organizer without analyzer.
NoAnalysis ==
  [content_text |-> "", metadata |-> <<>>, keywords |-> {}, suggested_category |-> None]

\* Tier 2 deciding by the file name alone, whatever the analyzer suggests.
Tier2_ignoring_suggestion(name, analysis) == classify(name, TRUE)

\* Tier 1 of organize_file: the target of the first matching rule, on the
\* analyzer's result when there is an analyzer.
Tier1(has_engine, has_analyzer, rs, f, name, analysis) ==
  IF has_engine
  THEN apply_rules(rs, f, name, IF has_analyzer THEN analysis ELSE NoAnalysis)
  ELSE None

\* The condition under which tier 2 runs.
Tier2Reached(category, has_analyzer, ai) == ~Truthy(category) /\ has_analyzer /\ ai

\* Tier 2: the analyzer's suggestion, or without one classify(file, True).
Tier2(name, analysis) ==
  IF Truthy(analysis.suggested_category) THEN analysis.suggested_category
  ELSE classify(name, TRUE)

\* Tier 3: classify(file, ai_classification).
Tier3(name, ai) == classify(name, ai)

\* `if not category:` after tier 2, which leaves tier 3 to decide.
Tier2OrTier3(category, name, ai) ==
  IF Truthy(category) THEN [category |-> category, tier |-> 2]
  ELSE [category |-> Tier3(name, ai), tier |-> 3]

\* The classification block of organize_file from the result of tier 1 on.
CascadeFrom(custom_target, has_analyzer, ai, name, analysis) ==
  IF Truthy(custom_target) THEN [category |-> custom_target, tier |-> 1]
  ELSE IF Tier2Reached(custom_target, has_analyzer, ai)
  THEN Tier2OrTier3(Tier2(name, analysis), name, ai)
  ELSE [category |-> Tier3(name, ai), tier |-> 3]

\* The classification block of organize_file, for an organizer built with or
\* without rules engine and content analyzer: the category and the tier that
\* assigned it.
Cascade(has_engine, has_analyzer, ai, rs, f, name, analysis) ==
  CascadeFrom(Tier1(has_engine, has_analyzer, rs, f, name, analysis),
              has_analyzer, ai, name, analysis)

\* The category organize_file resolves in the application, whose organizer is
\* built with the rules engine and the content analyzer.
Categorize(f, name) ==
  Cascade(TRUE, TRUE, ai_classification, rules, f, name, analyze_file(f, name)).category

NoStat == [category |-> None]

\* f"File too large ({size_mb:.1f}MB)": the size in MB rounded to one decimal.
TooLargeMessage(file_size) ==
  LET tenths == (file_size * 10 + MB \div 2) \div MB
  IN "File too large (" \o ToString(tenths \div 10) \o "." \o ToString(tenths % 10) \o "MB)"

\* The outcome a caller reads off the returned (success, message, ...).
Outcome(ret) ==
  IF ret.success THEN (IF ret.message = "Duplicate detected" THEN "Duplicate" ELSE "Organized")
  ELSE IF ret.message = "File not found" THEN "NotFound"
  ELSE IF ret.message = TooLargeMessage(ret.size) THEN "TooLarge"
  ELSE "Error"

\* The tail every path of organize_file shares: one log_operation call, then
\* (except on the two early returns) one update_statistics call, then return.
\* `consulted` are the points of failure the path passed.
Finish(l, idx, cn, ss, e, f, st, ret, consulted, flt, now, nm, nh) ==
  LET lg == log_operation(ops, nextId, now, e, "log" \in flt)
      cons == consulted \cup {"log"} \cup (IF st = NoStat THEN {} ELSE {"stat"})
  IN [loc |-> l, index |-> idx, canon |-> cn, self_stats |-> ss,
      ops |-> lg.ops, nextId |-> lg.nextId, logId |-> lg.id,
      moved |-> IF lg.id = -1 THEN moved
                ELSE [i \in DOMAIN moved \cup {lg.id} |-> IF i = lg.id THEN f ELSE moved[i]],
      stats |-> IF st = NoStat THEN stats
                ELSE update_statistics(stats, st.category, st.files_count, st.total_size,
                                       st.duplicates, st.errors, "stat" \in flt),
      ret |-> ret, consulted |-> cons, nmoves |-> nm, nhashes |-> nh]

\* The except branch without the update of the error statistics.
ExceptBranchUncounted(p, idx, cn, file_size, file_hash, text, consulted, flt, now, nh) ==
  Finish(loc, idx, cn, [self_stats EXCEPT !.errors = @ + 1],
         Entry(p.name, p, EmptyPath, "", "organize", file_size, file_hash, FALSE, text),
         NoFile, NoStat,
         [success |-> FALSE, message |-> "Error: " \o text, category |-> "", size |-> file_size],
         consulted, flt, now, 0, nh)

\* The except branch logging without error_message.
ExceptBranchNoMessage(p, idx, cn, file_size, file_hash, text, consulted, flt, now, nh) ==
  Finish(loc, idx, cn, [self_stats EXCEPT !.errors = @ + 1],
         Entry(p.name, p, EmptyPath, "", "organize", file_size, file_hash, FALSE, None),
         NoFile,
         [category |-> "Errors", files_count |-> 0, total_size |-> 0, duplicates |-> 0, errors |-> 1],
         [success |-> FALSE, message |-> "Error: " \o text, category |-> "", size |-> file_size],
         consulted, flt, now, 0, nh)

\* The except branch of organize_file.
ExceptBranch(p, idx, cn, file_size, file_hash, text, consulted, flt, now, nh) ==
  Finish(loc, idx, cn, [self_stats EXCEPT !.errors = @ + 1],
         Entry(p.name, p, EmptyPath, "", "organize", file_size, file_hash, FALSE, text),
         NoFile,
         [category |-> "Errors", files_count |-> 0, total_size |-> 0, duplicates |-> 0, errors |-> 1],
         [success |-> FALSE, message |-> "Error: " \o text, category |-> "", size |-> file_size],
         consulted, flt, now, 0, nh)

\* organize_file from the classification cascade on: classify, move to
\* organized_folder / category, log, update statistics.
ClassifyAndMove(p, f, idx, cn, file_size, file_hash, consulted, flt, now, nh) ==
  LET category == Categorize(f, p.name)
      dest_path == get_unique_path(loc, MkPath(OrganizedDir(category), p.name, 0))
  IN IF "move" \in flt
     THEN ExceptBranch(p, idx, cn, file_size, file_hash, MoveErrorText,
                       consulted \cup {"move"}, flt, now, nh)
     ELSE Finish(ShutilMove(loc, f, dest_path), idx, cn,
                 [self_stats EXCEPT !.processed = @ + 1],
                 Entry(p.name, p, dest_path, category, "organize", file_size, file_hash, TRUE, None),
                 f,
                 [category |-> category, files_count |-> 1, total_size |-> file_size,
                  duplicates |-> 0, errors |-> 0],
                 [success |-> TRUE, message |-> "Moved to " \o category,
                  category |-> category, size |-> file_size],
                 consulted \cup {"move"}, flt, now, 1, nh)

\* The branch `if is_dup:` computing the digest a second time before the
\* move.
DuplicateBranch_rehashing(p, f, idx, cn, file_size, file_hash, consulted, flt, now) ==
  LET dest_path == get_unique_path(loc, MkPath(DupDir, p.name, 0))
  IN IF "move" \in flt
     THEN ExceptBranch(p, idx, cn, file_size, file_hash, MoveErrorText,
                       consulted \cup {"move"}, flt, now, 2)
     ELSE Finish(ShutilMove(loc, f, dest_path), idx, cn,
                 [self_stats EXCEPT !.duplicates = @ + 1, !.processed = @ + 1],
                 Entry(p.name, p, dest_path, "Duplicates", "duplicate", file_size, file_hash, TRUE, None),
                 f,
                 [category |-> "Duplicates", files_count |-> 1, total_size |-> file_size,
                  duplicates |-> 1, errors |-> 0],
                 [success |-> TRUE, message |-> "Duplicate detected",
                  category |-> "Duplicates", size |-> file_size],
                 consulted \cup {"move"}, flt, now, 1, 2)

\* The branch `if is_dup:` of organize_file.
DuplicateBranch(p, f, idx, cn, file_size, file_hash, consulted, flt, now) ==
  LET dest_path == get_unique_path(loc, MkPath(DupDir, p.name, 0))
  IN IF "move" \in flt
     THEN ExceptBranch(p, idx, cn, file_size, file_hash, MoveErrorText,
                       consulted \cup {"move"}, flt, now, 1)
     ELSE Finish(ShutilMove(loc, f, dest_path), idx, cn,
                 [self_stats EXCEPT !.duplicates = @ + 1, !.processed = @ + 1],
                 Entry(p.name, p, dest_path, "Duplicates", "duplicate", file_size, file_hash, TRUE, None),
                 f,
                 [category |-> "Duplicates", files_count |-> 1, total_size |-> file_size,
                  duplicates |-> 1, errors |-> 0],
                 [success |-> TRUE, message |-> "Duplicate detected",
                  category |-> "Duplicates", size |-> file_size],
                 consulted \cup {"move"}, flt, now, 1, 1)

\* The block `if self.config.enable_duplicates:` of organize_file and what
\* follows it.
DuplicateCheck(p, f, file_size, flt, now) ==
  LET file_hash == compute_hash(f, "hash" \in flt)
  IN IF file_hash = Raised
     THEN ExceptBranch(p, index, canon, file_size, None, HashErrorText, {"hash"}, flt, now, 1)
     ELSE LET r == add_duplicate_hash(index, file_hash, p, file_size, now, "dup" \in flt)
              cn == IF file_hash \in DOMAIN r.index /\ file_hash \notin DOMAIN index
                    THEN [h \in DOMAIN r.index |-> IF h = file_hash THEN f ELSE canon[h]]
                    ELSE canon
          IN IF r.is_dup
             THEN DuplicateBranch(p, f, r.index, cn, file_size, file_hash, {"hash", "dup"}, flt, now)
             ELSE ClassifyAndMove(p, f, r.index, cn, file_size, file_hash, {"hash", "dup"}, flt, now, 1)

\* An early return that counts the file under the Errors statistics, as the
\* except branch does.
EarlyReturn_counted(p, file_size, msg, flt, now) ==
  Finish(loc, index, canon, [self_stats EXCEPT !.errors = @ + 1],
         Entry(p.name, p, EmptyPath, "", "organize", file_size, None, FALSE, msg),
         NoFile,
         [category |-> "Errors", files_count |-> 0, total_size |-> 0, duplicates |-> 0, errors |-> 1],
         [success |-> FALSE, message |-> msg, category |-> "", size |-> file_size],
         {}, flt, now, 0, 0)

\* The two early returns of organize_file ("File not found", file too large):
\* one log_operation call with success=False and destination "", then return.
EarlyReturn(p, file_size, msg, flt, now) ==
  Finish(loc, index, canon, self_stats,
         Entry(p.name, p, EmptyPath, "", "organize", file_size, None, FALSE, msg),
         NoFile, NoStat,
         [success |-> FALSE, message |-> msg, category |-> "", size |-> file_size],
         {}, flt, now, 0, 0)

\* The size check of organize_file accepting only sizes under the maximum.
exceeds_limit_inclusive(file_size) == file_size >= max_file_size_mb * MB

\* file_size / (1024 * 1024) > max_file_size_mb: the division by 2^20 is
\* exact in double precision for every size below 2^53, so the test is the
\* comparison of the byte counts.
exceeds_limit(file_size) == file_size > max_file_size_mb * MB

\* FileOrganizer.organize_file(file_path) under the failures flt: the next
\* store, filesystem and counters, and the tuple returned.
organize_file(p, flt, now) ==
  LET f == FileAt(loc, p)
  IN IF f = NoFile
     THEN EarlyReturn(p, 0, "File not found", flt, now)
     ELSE LET file_size == SizeOf(f)
          IN IF exceeds_limit(file_size)
             THEN EarlyReturn(p, file_size, TooLargeMessage(file_size), flt, now)
             ELSE IF enable_duplicates
             THEN DuplicateCheck(p, f, file_size, flt, now)
             ELSE ClassifyAndMove(p, f, index, canon, file_size, None, {}, flt, now, 0)

\* --------------------------------------------------------- history dialog
\* The rows load_history puts in history_table; a row gets an Undo button
\* when op['can_undo'] == 1.
Rows(operations) ==
  [i \in 1..Len(operations) |->
     [id |-> operations[i].id, button |-> operations[i].can_undo = 1]]

\* HistoryViewer.load_history(search_term).
load_history(o, search_term) ==
  IF search_term # ""
  THEN Rows(search_operations(o, search_term, SearchLimit))
  ELSE Rows(get_undoable_operations(o, UndoableLimit))

\* next((op for op in operations if op['id'] == operation_id), None)
\* as the list of what was found: empty for None.
FindOperation(operations, operation_id) ==
  LET HasId(e) == e.id = operation_id
      hits == SelectSeq(operations, HasId)
  IN IF hits = <<>> THEN <<>> ELSE <<Head(hits)>>

\* The branch `if not source.exists():` consuming the entry all the same.
FileNotFoundReturn_consuming(same, operation_id) ==
  [same EXCEPT !.ops = mark_operation_undone(same.ops, operation_id, FALSE)]
  @@ [outcome |-> "missing"]

\* The branch `if not source.exists():` of undo_operation: a warning titled
\* "File Not Found", then return.
FileNotFoundReturn(same, operation_id) == same @@ [outcome |-> "missing"]

\* HistoryViewer.undo_operation(operation_id) with the user's answer to the
\* confirmation and the failures flt.  source = Path(destination_path); for
\* an entry logged with destination "" that is Path("."), which exists, and
\* shutil.move of the working directory raises.
undo_operation(operation_id, reply, flt, now) ==
  LET found == FindOperation(get_operation_history(ops, HistoryLimit), operation_id)
      operation == found[1]
      same == [loc |-> loc, ops |-> ops, nextId |-> nextId, moved |-> moved,
               table |-> table, logId |-> 0, file |-> NoFile, consulted |-> {}]
  IN IF found = <<>> THEN same @@ [outcome |-> "unknown"]
     ELSE IF reply = "No" THEN same @@ [outcome |-> "cancelled"]
     ELSE LET source == operation.destination_path
              dest == operation.original_path
          IN IF ~Exists(loc, source) THEN FileNotFoundReturn(same, operation_id)
             ELSE IF source = EmptyPath
             THEN same @@ [outcome |-> "error"]
             ELSE IF "move" \in flt
             THEN [same EXCEPT !.consulted = {"move"}, !.file = FileAt(loc, source)]
                  @@ [outcome |-> "error"]
             ELSE LET f == FileAt(loc, source)
                      marked == mark_operation_undone(ops, operation_id, "mark" \in flt)
                      lg == log_operation(marked, nextId, now,
                              [Entry(operation.filename, source, dest, "Undo", "undo",
                                     operation.file_size, None, TRUE, None) EXCEPT !.id = 0],
                              "log" \in flt)
                  IN [loc |-> ShutilMove(loc, f, dest), ops |-> lg.ops,
                      nextId |-> lg.nextId, logId |-> lg.id, file |-> f,
                      moved |-> IF lg.id = -1 THEN moved
                                ELSE [i \in DOMAIN moved \cup {lg.id} |->
                                        IF i = lg.id THEN f ELSE moved[i]],
                      table |-> load_history(lg.ops, ""),
                      consulted |-> {"move", "mark", "log"}, outcome |-> "restored"]

\* --------------------------------------------------------------- sessions
\* Database.start_session: the insert (status defaults to 'active', end_time
\* to NULL, here 0), or -1 when the transaction fails.
start_session(ss, mode, now, fail) ==
  IF fail THEN [sessions |-> ss, id |-> -1]
  ELSE [sessions |-> Append(ss, [id |-> Len(ss) + 1, mode |-> mode, start_time |-> now,
                                 end_time |-> 0, files_processed |-> 0,
                                 status |-> "active"]),
        id |-> Len(ss) + 1]

\* end_session storing the count of the last call only.
end_session_last_call(ss, session_id, files_processed, now, fail) ==
  IF fail THEN ss
  ELSE [i \in 1..Len(ss) |->
          IF ss[i].id = session_id
          THEN [ss[i] EXCEPT !.end_time = now,
                             !.files_processed = IF files_processed > 0 THEN 1 ELSE 0,
                             !.status = "completed"]
          ELSE ss[i]]

\* Database.end_session: UPDATE ... SET end_time, files_processed, status =
\* 'completed' WHERE id = ?; a failed transaction is swallowed.
end_session(ss, session_id, files_processed, now, fail) ==
  IF fail THEN ss
  ELSE [i \in 1..Len(ss) |->
          IF ss[i].id = session_id
          THEN [ss[i] EXCEPT !.end_time = now, !.files_processed = files_processed,
                             !.status = "completed"]
          ELSE ss[i]]

\* self.batch_thread = None.
NoThread ==
  [exists |-> FALSE, files |-> <<>>, i |-> 0, state |-> "none", base |-> 0,
   success |-> 0, failed |-> 0, signal |-> FALSE]

\* BatchOrganizerThread(organizer, files) started; base is the length of the
\* ledger at that moment.
NewBatchThread(files, base) ==
  [exists |-> TRUE, files |-> files, i |-> 0, state |-> "running", base |-> base,
   success |-> 0, failed |-> 0, signal |-> FALSE]

\* The body of the for loop of BatchOrganizerThread.run leaving the loop at
\* the first failed outcome.
BatchIteration_abort_on_failure(thread, result) ==
  IF result
  THEN [thread EXCEPT !.i = @ + 1, !.success = @ + 1]
  ELSE [thread EXCEPT !.i = @ + 1, !.failed = @ + 1, !.state = "finished", !.signal = TRUE]

\* The body of the for loop of BatchOrganizerThread.run after organize_file
\* returned `result`: count it and go on to the next file.
BatchIteration(thread, result) ==
  IF result
  THEN [thread EXCEPT !.i = @ + 1, !.success = @ + 1]
  ELSE [thread EXCEPT !.i = @ + 1, !.failed = @ + 1]

\* The window after start_monitoring in continuous mode / before any start.
Monitoring ==
  /\ sessions = start_session(<<>>, "continuous", 0, FALSE).sessions
  /\ current_session_id = 1
  /\ active = TRUE
  /\ monitoring = TRUE
  /\ batch_thread = NoThread

Stopped ==
  /\ sessions = <<>>
  /\ current_session_id = 0
  /\ active = FALSE
  /\ monitoring = FALSE
  /\ batch_thread = NoThread

\* No worker is inside a call and no stand-alone organizer has been built.
NoCalls == <<>>
NoProbe == [stage |-> "none"]
Quiescent == inflight = NoCalls /\ probe = NoProbe

\* ---------------------------------------------------------------- actions
NoRet == [success |-> FALSE, message |-> "", category |-> "", size |-> 0]

Step(op, path, id, file, outcome, ret, logId, flt, nmoves, nhashes) ==
  [op |-> op, path |-> path, id |-> id, file |-> file, outcome |-> outcome,
   ret |-> ret, logId |-> logId, flt |-> flt, nmoves |-> nmoves, nhashes |-> nhashes]

Quiet(op) == Step(op, EmptyPath, 0, NoFile, "", NoRet, 0, {}, 0, 0)

Init ==
  /\ loc = [f \in Files |-> IF f = "f3" THEN MkPath(WatchDir, "big.mp4", 0) ELSE Nowhere]
  /\ ops = <<>>
  /\ nextId = 1
  /\ index = <<>>
  /\ canon = <<>>
  /\ moved = <<>>
  /\ stats = <<>>
  /\ self_stats = [processed |-> 0, duplicates |-> 0, errors |-> 0]
  /\ enable_duplicates \in BOOLEAN
  /\ table = <<>>
  /\ last = Quiet("idle")
  /\ calls = 0
  /\ rules_file = load_rules(Absent).file
  /\ rules = load_rules(Absent).rules
  /\ ai_classification = FALSE
  /\ Monitoring
  /\ Quiescent

\* A producer writes a new file into the watched folder.
Arrive(f, nm) ==
  /\ loc[f] = Nowhere
  /\ nm \in NamesOf(f)
  /\ f = "f2" => loc["f1"] # Nowhere
  /\ ~Exists(loc, MkPath(WatchDir, nm, 0))
  /\ loc' = [loc EXCEPT ![f] = MkPath(WatchDir, nm, 0)]
  /\ last' = Quiet("idle")
  /\ UNCHANGED <<ops, nextId, index, canon, moved, stats, self_stats,
                 enable_duplicates, table, calls>>
  /\ UNCHANGED engine
  /\ UNCHANGED window
  /\ UNCHANGED aside

\* A worker (OrganizerThread.process_file or BatchOrganizerThread.run) calls
\* organize_file on a path of the watched folder; `limit` bounds the number of
\* calls explored.
CallOrganize(limit, p, flt) ==
  /\ calls < limit
  /\ LET r == organize_file(p, flt, calls + 1)
     IN /\ flt \subseteq r.consulted
        /\ loc' = r.loc
        /\ ops' = r.ops
        /\ nextId' = r.nextId
        /\ index' = r.index
        /\ canon' = r.canon
        /\ moved' = r.moved
        /\ stats' = r.stats
        /\ self_stats' = r.self_stats
        /\ last' = Step("organize", p, r.logId, FileAt(loc, p), Outcome(r.ret), r.ret,
                        r.logId, flt, r.nmoves, r.nhashes)
  /\ calls' = calls + 1
  /\ UNCHANGED <<enable_duplicates, table>>
  /\ UNCHANGED engine
  /\ UNCHANGED aside

\* The call made by the continuous worker (OrganizerThread.process_file).
OrganizeUpTo(limit, p, flt) == CallOrganize(limit, p, flt) /\ UNCHANGED window

Organize(p, flt) == OrganizeUpTo(MaxCalls, p, flt)

\* MainWindow.show_history opens the dialog (its constructor loads the
\* table), or the Refresh button reloads it.
ShowHistory ==
  /\ table' = load_history(ops, "")
  /\ last' = Quiet("idle")
  /\ UNCHANGED <<loc, ops, nextId, index, canon, moved, stats, self_stats,
                 enable_duplicates, calls>>
  /\ UNCHANGED engine
  /\ UNCHANGED window
  /\ UNCHANGED aside

\* HistoryViewer.search_history(text), text typed into the search box.
SearchHistory(text) ==
  /\ table' = load_history(ops, text)
  /\ last' = Quiet("idle")
  /\ UNCHANGED <<loc, ops, nextId, index, canon, moved, stats, self_stats,
                 enable_duplicates, calls>>
  /\ UNCHANGED engine
  /\ UNCHANGED window
  /\ UNCHANGED aside

\* The user clicks the Undo button of a row of the table. Once MaxCalls file
\* operations are spent, only the confirmed attempt that ends in the
\* not-found report is explored further.
UndoOperation(row, reply, flt) ==
  /\ row \in 1..Len(table)
  /\ table[row].button
  /\ LET r == undo_operation(table[row].id, reply, flt, calls + 1)
     IN /\ calls < MaxCalls \/ (flt = {} /\ reply = "Yes" /\ r.outcome = "missing")
        /\ flt \subseteq r.consulted
        /\ loc' = r.loc
        /\ ops' = r.ops
        /\ nextId' = r.nextId
        /\ moved' = r.moved
        /\ table' = r.table
        /\ last' = Step("undo", EmptyPath, table[row].id, r.file, r.outcome, NoRet,
                        r.logId, flt, IF r.outcome = "restored" THEN 1 ELSE 0, 0)
        /\ calls' = IF r.outcome = "restored" THEN calls + 1 ELSE calls
  /\ UNCHANGED <<index, canon, stats, self_stats, enable_duplicates>>
  /\ UNCHANGED engine
  /\ UNCHANGED window
  /\ UNCHANGED aside

Next ==
  \/ \E f \in Files, nm \in Names : Arrive(f, nm)
  \/ \E p \in WatchPaths, flt \in SUBSET Faults : Organize(p, flt)
  \/ ShowHistory
  \/ \E text \in SearchTerms : SearchHistory(text)
  \/ \E row \in 1..MaxCalls, reply \in {"Yes", "No"}, flt \in SUBSET Faults :
       UndoOperation(row, reply, flt)

Spec == Init /\ [][Next]_vars

\* ------------------------------------------------- the rules dialog's world
\* The rules file is writable here: every save_rules of the dialog succeeds.
\* What a user enters in RuleEditor: name, pattern, target folder and
\* conditions (all three validated as non-empty by save_rule).
Template(name, pattern, target_folder, conditions) ==
  [name |-> name, pattern |-> pattern, target_folder |-> target_folder,
   conditions |-> conditions]

RuleTemplates ==
  { Template("Notes", "*.txt", "Notes", NoConditions),
    Template("Invoices", "*.txt", "Finance/Invoices", Cond("contains_text", "invoice")),
    Template("Photos with GPS", "*.jpg", "Photos/Locations", Cond("has_gps", TRUE)) }

\* priority_spin values used.
Priorities == {1, 2}

\* Rules files written by hand (load_rules validates nothing but the keys):
\* ids in the order of the file.  The empty list; an unsorted list whose catch-all rule has a blank target
\* folder; a list with a blank pattern and a tie.
RuleFiles ==
  { <<>>,
    << Rule(1, "Notes", "*.txt", "Notes", NoConditions, 1, TRUE),
       Rule(2, "Everything", "*", "", NoConditions, 2, TRUE) >>,
    << Rule(1, "Blank", "", "Blank", NoConditions, 2, TRUE),
       Rule(2, "Notes", "*.txt", "Notes", NoConditions, 2, TRUE) >> }

RulesInit ==
  /\ loc = [f \in Files |-> IF f = "f3" THEN MkPath(WatchDir, "big.mp4", 0) ELSE Nowhere]
  /\ ops = <<>>
  /\ nextId = 1
  /\ index = <<>>
  /\ canon = <<>>
  /\ moved = <<>>
  /\ stats = <<>>
  /\ self_stats = [processed |-> 0, duplicates |-> 0, errors |-> 0]
  /\ enable_duplicates = FALSE
  /\ table = <<>>
  /\ last = Quiet("idle")
  /\ calls = 0
  /\ rules_file \in {FileOf(rs) : rs \in RuleFiles}
  /\ rules = load_rules(rules_file).rules
  /\ ai_classification \in BOOLEAN
  /\ Stopped
  /\ Quiescent

\* The application is started again: RulesEngine() loads the rules file,
\* which is as it was saved or has been rewritten by hand.
LoadRules(file) ==
  /\ file = rules_file \/ file \in {FileOf(rs) : rs \in RuleFiles}
  /\ rules' = load_rules(file).rules
  /\ rules_file' = load_rules(file).file
  /\ last' = Quiet("load")
  /\ UNCHANGED <<loc, ops, nextId, index, canon, moved, stats, self_stats,
                 enable_duplicates, table, calls, ai_classification>>
  /\ UNCHANGED window
  /\ UNCHANGED aside

\* RulesManager.add_rule: the editor builds a Rule with get_next_id, then
\* RulesEngine.add_rule appends, sorts and saves; `fail`: the write of the
\* rules file fails.
AddRuleSaving(t, priority, enabled, fail) ==
  /\ Len(rules) < MaxRules
  /\ LET rule == Rule(get_next_id(rules), t.name, t.pattern, t.target_folder,
                      t.conditions, priority, enabled)
     IN rules' = add_rule(rules, rule)
  /\ rules_file' = save_rules(rules', rules_file, fail)
  /\ last' = Quiet("idle")
  /\ UNCHANGED <<loc, ops, nextId, index, canon, moved, stats, self_stats,
                 enable_duplicates, table, calls, ai_classification>>
  /\ UNCHANGED window
  /\ UNCHANGED aside

\* RulesManager.delete_rule confirmed: RulesEngine.remove_rule.
RemoveRuleSaving(rule_id, fail) ==
  /\ \E i \in 1..Len(rules) : rules[i].id = rule_id
  /\ rules' = remove_rule(rules, rule_id)
  /\ rules_file' = save_rules(rules', rules_file, fail)
  /\ last' = Quiet("idle")
  /\ UNCHANGED <<loc, ops, nextId, index, canon, moved, stats, self_stats,
                 enable_duplicates, table, calls, ai_classification>>
  /\ UNCHANGED window
  /\ UNCHANGED aside

\* RulesManager.edit_rule: RuleEditor.save_rule rewrites the fields of the
\* rule object, then RulesEngine.update_rule sorts and saves.
UpdateRuleSaving(i, t, priority, enabled, fail) ==
  /\ i \in 1..Len(rules)
  /\ LET rule == Rule(rules[i].id, t.name, t.pattern, t.target_folder,
                      t.conditions, priority, enabled)
     IN /\ rule # rules[i]
        /\ rules' = update_rule([rules EXCEPT ![i] = rule], rule)
  /\ rules_file' = save_rules(rules', rules_file, fail)
  /\ last' = Quiet("idle")
  /\ UNCHANGED <<loc, ops, nextId, index, canon, moved, stats, self_stats,
                 enable_duplicates, table, calls, ai_classification>>
  /\ UNCHANGED window
  /\ UNCHANGED aside

\* RulesManager.toggle_rule: RulesEngine.toggle_rule.
ToggleRuleSaving(rule_id, fail) ==
  /\ \E i \in 1..Len(rules) : rules[i].id = rule_id
  /\ rules' = toggle_rule(rules, rule_id)
  /\ rules_file' = save_rules(rules', rules_file, fail)
  /\ last' = Quiet("idle")
  /\ UNCHANGED <<loc, ops, nextId, index, canon, moved, stats, self_stats,
                 enable_duplicates, table, calls, ai_classification>>
  /\ UNCHANGED window
  /\ UNCHANGED aside

\* The four operations of the dialog with the rules file writable.
AddRule(t, priority, enabled) == AddRuleSaving(t, priority, enabled, FALSE)

RemoveRule(rule_id) == RemoveRuleSaving(rule_id, FALSE)

UpdateRule(i, t, priority, enabled) == UpdateRuleSaving(i, t, priority, enabled, FALSE)

ToggleRule(rule_id) == ToggleRuleSaving(rule_id, FALSE)

RuleIds == 1..(MaxRules + 1)

RulesNext ==
  \/ \E file \in {rules_file} \cup {FileOf(rs) : rs \in RuleFiles} : LoadRules(file)
  \/ \E t \in RuleTemplates, priority \in Priorities, enabled \in BOOLEAN :
       AddRule(t, priority, enabled)
  \/ \E rule_id \in RuleIds : RemoveRule(rule_id)
  \/ \E i \in 1..MaxRules, t \in RuleTemplates, priority \in Priorities,
        enabled \in BOOLEAN : UpdateRule(i, t, priority, enabled)
  \/ \E rule_id \in RuleIds : ToggleRule(rule_id)

RulesSpec == RulesInit /\ [][RulesNext]_vars

\* The same dialog when a write of the rules file may fail (read-only folder,
\* disk full), with the rules a user enters reduced to one template.  A
\* write fails only while the file is up to date: one failure at a time is
\* outstanding.
SaveTemplates == { Template("Notes", "*.txt", "Notes", NoConditions) }

MayFail(fail) == fail => rules_file = FileOf(rules)

RulesSaveNext ==
  \/ LoadRules(rules_file)
  \/ \E t \in SaveTemplates, priority \in Priorities, enabled \in BOOLEAN, fail \in BOOLEAN :
       MayFail(fail) /\ AddRuleSaving(t, priority, enabled, fail)
  \/ \E rule_id \in RuleIds, fail \in BOOLEAN :
       MayFail(fail) /\ RemoveRuleSaving(rule_id, fail)
  \/ \E i \in 1..MaxRules, t \in SaveTemplates, priority \in Priorities,
        enabled \in BOOLEAN, fail \in BOOLEAN :
       MayFail(fail) /\ UpdateRuleSaving(i, t, priority, enabled, fail)
  \/ \E rule_id \in RuleIds, fail \in BOOLEAN :
       MayFail(fail) /\ ToggleRuleSaving(rule_id, fail)

RulesSaveSpec == RulesInit /\ [][RulesSaveNext]_vars


\* ------------------------------------------- organizing under loaded rules
\* start_monitoring builds the organizer with the rules the engine loaded:
\* from no file (the default rules) or from one of RuleFiles.
CascadeInit ==
  /\ loc = [f \in Files |-> IF f = "f3" THEN MkPath(WatchDir, "big.mp4", 0) ELSE Nowhere]
  /\ ops = <<>>
  /\ nextId = 1
  /\ index = <<>>
  /\ canon = <<>>
  /\ moved = <<>>
  /\ stats = <<>>
  /\ self_stats = [processed |-> 0, duplicates |-> 0, errors |-> 0]
  /\ enable_duplicates = FALSE
  /\ table = <<>>
  /\ last = Quiet("idle")
  /\ calls = 0
  /\ \E file \in {FileOf(rs) : rs \in RuleFiles} \cup {Absent} :
       /\ rules_file = load_rules(file).file
       /\ rules = load_rules(file).rules
  /\ ai_classification \in BOOLEAN
  /\ Monitoring
  /\ Quiescent

CascadeNext ==
  \/ \E f \in Files, nm \in Names : Arrive(f, nm)
  \/ \E p \in WatchPaths, flt \in SUBSET {"move", "log", "stat"} : Organize(p, flt)

CascadeSpec == CascadeInit /\ [][CascadeNext]_vars

\* ------------------------------------------------ files of one name in turn
\* Producers write three files under the same name, each once the name is
\* free in the watched folder; the worker organizes what it finds.  One call
\* more than MaxCalls is explored, so that a third file meets two collisions.
SameName == "a.txt"

CollisionInit ==
  /\ loc = [f \in Files |-> IF f = "f3" THEN MkPath(WatchDir, "big.mp4", 0) ELSE Nowhere]
  /\ ops = <<>>
  /\ nextId = 1
  /\ index = <<>>
  /\ canon = <<>>
  /\ moved = <<>>
  /\ stats = <<>>
  /\ self_stats = [processed |-> 0, duplicates |-> 0, errors |-> 0]
  /\ enable_duplicates \in BOOLEAN
  /\ table = <<>>
  /\ last = Quiet("idle")
  /\ calls = 0
  /\ rules_file = load_rules(Absent).file
  /\ rules = load_rules(Absent).rules
  /\ ai_classification = FALSE
  /\ Monitoring
  /\ Quiescent

ArriveSameName(f) ==
  /\ f # "f3"
  /\ loc[f] = Nowhere
  /\ ~Exists(loc, MkPath(WatchDir, SameName, 0))
  /\ loc' = [loc EXCEPT ![f] = MkPath(WatchDir, SameName, 0)]
  /\ last' = Quiet("idle")
  /\ UNCHANGED <<ops, nextId, index, canon, moved, stats, self_stats,
                 enable_duplicates, table, calls>>
  /\ UNCHANGED engine
  /\ UNCHANGED window
  /\ UNCHANGED aside

CollisionNext ==
  \/ \E f \in Files : ArriveSameName(f)
  \/ \E p \in WatchPaths, flt \in SUBSET {"move", "dup"} : OrganizeUpTo(MaxCalls + 1, p, flt)

CollisionSpec == CollisionInit /\ [][CollisionNext]_vars

\* ------------------------------------------------ the main window's world
\* The Start and Stop buttons, the batch worker and the session store.
\* Duplicate detection is off here.
SessionFaults == {"move"}

\* watch_folder.glob("*") filtered to files: the files of the watched folder
\* in any order the directory scan may give.
Enumerations(l) ==
  LET present == {p \in WatchPaths : Exists(l, p)}
      n == Cardinality(present)
  IN {s \in [1..n -> present] : \A i, j \in 1..n : i # j => s[i] # s[j]}

SessionInit ==
  /\ loc = [f \in Files |-> IF f = "f3" THEN MkPath(WatchDir, "big.mp4", 0) ELSE Nowhere]
  /\ ops = <<>>
  /\ nextId = 1
  /\ index = <<>>
  /\ canon = <<>>
  /\ moved = <<>>
  /\ stats = <<>>
  /\ self_stats = [processed |-> 0, duplicates |-> 0, errors |-> 0]
  /\ enable_duplicates = FALSE
  /\ table = <<>>
  /\ last = Quiet("idle")
  /\ calls = 0
  /\ rules_file = load_rules(Absent).file
  /\ rules = load_rules(Absent).rules
  /\ ai_classification = FALSE
  /\ Stopped
  /\ Quiescent

\* MainWindow.start_monitoring (Start button or tray, offered while nothing
\* runs): a fresh organizer, a new session, then start_continuous_mode or
\* start_batch_mode; `reply` answers the batch confirmation box.
StartMonitoring(mode, files, reply, fail) ==
  /\ ~active
  /\ Len(sessions) < MaxSessions
  /\ files \in Enumerations(loc)
  /\ mode = "batch" /\ reply = "Yes" => calls + Len(files) <= MaxCalls
  /\ self_stats' = [processed |-> 0, duplicates |-> 0, errors |-> 0]
  /\ LET s == start_session(sessions, mode, calls + 1, fail)
     IN /\ sessions' = s.sessions
        /\ current_session_id' = s.id
  /\ IF mode = "continuous"
     THEN /\ monitoring' = TRUE
          /\ active' = TRUE
          /\ UNCHANGED batch_thread
     ELSE IF files = <<>> \/ reply = "No"
     THEN UNCHANGED <<monitoring, active, batch_thread>>
     ELSE /\ batch_thread' = NewBatchThread(files, Len(ops))
          /\ active' = TRUE
          /\ UNCHANGED monitoring
  /\ last' = Quiet("start")
  /\ UNCHANGED <<loc, ops, nextId, index, canon, moved, stats,
                 enable_duplicates, table, calls>>
  /\ UNCHANGED engine
  /\ UNCHANGED aside

\* FileWatcher.on_created -> OrganizerThread.process_file while the monitor
\* runs, for a file that is in the watched folder.
ContinuousOrganize(p, flt) ==
  /\ monitoring
  /\ Exists(loc, p)
  /\ CallOrganize(MaxCalls, p, flt)
  /\ UNCHANGED window

\* One iteration of the loop of BatchOrganizerThread.run.
BatchOrganize(flt) ==
  /\ batch_thread.exists
  /\ batch_thread.state = "running"
  /\ batch_thread.i < Len(batch_thread.files)
  /\ CallOrganize(MaxCalls, batch_thread.files[batch_thread.i + 1], flt)
  /\ batch_thread' = BatchIteration(batch_thread, last'.ret.success)
  /\ UNCHANGED <<sessions, current_session_id, active, monitoring>>

\* The loop of BatchOrganizerThread.run is over: batch_complete is emitted.
BatchExit ==
  /\ batch_thread.exists
  /\ batch_thread.state = "running"
  /\ batch_thread.i = Len(batch_thread.files)
  /\ batch_thread' = [batch_thread EXCEPT !.state = "finished", !.signal = TRUE]
  /\ last' = Quiet("idle")
  /\ UNCHANGED <<loc, ops, nextId, index, canon, moved, stats, self_stats,
                 enable_duplicates, table, calls>>
  /\ UNCHANGED engine
  /\ UNCHANGED aside
  /\ UNCHANGED <<sessions, current_session_id, active, monitoring>>

\* MainWindow.on_batch_complete: the buttons and the tray go back to the
\* stopped state.
OnBatchComplete ==
  /\ batch_thread.signal
  /\ batch_thread' = [batch_thread EXCEPT !.signal = FALSE]
  /\ active' = FALSE
  /\ last' = Quiet("complete")
  /\ UNCHANGED <<loc, ops, nextId, index, canon, moved, stats, self_stats,
                 enable_duplicates, table, calls>>
  /\ UNCHANGED engine
  /\ UNCHANGED aside
  /\ UNCHANGED <<sessions, current_session_id, monitoring>>

\* MainWindow.stop_monitoring (Stop button or tray, offered while something
\* runs): the monitor and the workers are stopped, the current session ended.
StopMonitoring ==
  /\ active
  /\ monitoring' = FALSE
  /\ batch_thread' = NoThread
  /\ IF current_session_id # 0
     THEN /\ sessions' = end_session(sessions, current_session_id,
                                     self_stats.processed, calls + 1, FALSE)
          /\ current_session_id' = 0
     ELSE UNCHANGED <<sessions, current_session_id>>
  /\ active' = FALSE
  /\ last' = Quiet("stop")
  /\ UNCHANGED <<loc, ops, nextId, index, canon, moved, stats, self_stats,
                 enable_duplicates, table, calls>>
  /\ UNCHANGED engine
  /\ UNCHANGED aside

Replies == {"Yes", "No"}
Modes == {"continuous", "batch"}

SessionNext ==
  \/ \E f \in Files, nm \in Names : Arrive(f, nm)
  \/ \E mode \in Modes, files \in Enumerations(loc), reply \in Replies, fail \in BOOLEAN :
       StartMonitoring(mode, files, reply, fail)
  \/ \E p \in WatchPaths, flt \in SUBSET SessionFaults : ContinuousOrganize(p, flt)
  \/ \E flt \in SUBSET SessionFaults : BatchOrganize(flt)
  \/ BatchExit
  \/ OnBatchComplete
  \/ StopMonitoring

SessionSpec == SessionInit /\ [][SessionNext]_vars

\* ------------------------------------------- an organizer built on its own
\* FileOrganizer(config, database, content_analyzer, rules_engine): the last
\* two arguments default to None.  One file is handed to it.  The analyzer,
\* when there is one, has OCR or not (pytesseract installed or not).
GpsPresent ==
  Rule(1, "Photos with GPS", "*.jpg", "Photos/Locations", Cond("has_gps", TRUE), 5, TRUE)
GpsAbsent ==
  Rule(2, "Photos without GPS", "*.jpg", "Photos/Unplaced", Cond("has_gps", FALSE), 4, TRUE)
ProbeRules == { <<>>, <<GpsPresent>>, <<GpsAbsent>>, <<GpsPresent, GpsAbsent>>, DefaultRules }

\* The names a file of each kind is given.
ProbeNamesOf(f) ==
  IF ContentOf(f).kind = "image" THEN {"photo.jpg", "invoice.jpg"}
  ELSE IF ContentOf(f).kind = "text" THEN {"a.txt", "project_report.txt", "b.jpg"}
  ELSE IF ContentOf(f).kind = "video" THEN {"big.mp4"}
  ELSE {"notes.xyz"}

Built(f, name, ocr_enabled, has_engine, has_analyzer) ==
  [stage |-> "built", f |-> f, name |-> name, ocr_enabled |-> ocr_enabled,
   has_engine |-> has_engine, has_analyzer |-> has_analyzer,
   analysis |-> NoAnalysis, category |-> None, tier |-> 0]

ProbeInit ==
  /\ loc = [f \in Files |-> IF f = "f3" THEN MkPath(WatchDir, "big.mp4", 0) ELSE Nowhere]
  /\ ops = <<>>
  /\ nextId = 1
  /\ index = <<>>
  /\ canon = <<>>
  /\ moved = <<>>
  /\ stats = <<>>
  /\ self_stats = [processed |-> 0, duplicates |-> 0, errors |-> 0]
  /\ enable_duplicates = FALSE
  /\ table = <<>>
  /\ last = Quiet("idle")
  /\ calls = 0
  /\ rules \in ProbeRules
  /\ rules_file = FileOf(rules)
  /\ ai_classification \in BOOLEAN
  /\ Stopped
  /\ inflight = NoCalls
  /\ \E f \in ProbeFiles \cup {"f1", "f3"}, name \in ProbeNames,
        ocr_enabled \in BOOLEAN, has_engine \in BOOLEAN, has_analyzer \in BOOLEAN :
       /\ name \in ProbeNamesOf(f)
       /\ probe = Built(f, name, ocr_enabled, has_engine, has_analyzer)

\* ContentAnalyzer.analyze_file on the file.
AnalyzeFile ==
  /\ probe.stage = "built"
  /\ probe.has_analyzer
  /\ probe' = [probe EXCEPT !.stage = "analyzed",
                            !.analysis = analyze(probe.name, ContentOf(probe.f),
                                                 SizeOf(probe.f), probe.ocr_enabled)]
  /\ UNCHANGED <<loc, ops, nextId, index, canon, moved, stats, self_stats,
                 enable_duplicates, table, last, calls, inflight>>
  /\ UNCHANGED engine
  /\ UNCHANGED window

\* The classification block of organize_file on the file: the analyzer, when
\* there is one, is run by the block itself.
ClassifyFile ==
  /\ probe.stage \in {"built", "analyzed"}
  /\ LET analysis == IF probe.has_analyzer
                     THEN analyze(probe.name, ContentOf(probe.f), SizeOf(probe.f),
                                  probe.ocr_enabled)
                     ELSE NoAnalysis
         r == Cascade(probe.has_engine, probe.has_analyzer, ai_classification, rules,
                      probe.f, probe.name, analysis)
     IN probe' = [probe EXCEPT !.stage = "classified", !.analysis = analysis,
                               !.category = r.category, !.tier = r.tier]
  /\ UNCHANGED <<loc, ops, nextId, index, canon, moved, stats, self_stats,
                 enable_duplicates, table, last, calls, inflight>>
  /\ UNCHANGED engine
  /\ UNCHANGED window

ProbeNext == AnalyzeFile \/ ClassifyFile

ProbeSpec == ProbeInit /\ [][ProbeNext]_vars

\* ------------------------------------------------ two workers on one store
\* Two workers call organize_file at the same time on different files of the
\* watched folder, with duplicate detection on.  Every ledger operation opens
\* its own connection (get_connection), so the store serialises the
\* statements of the two calls and nothing else does.  add_duplicate_hash is
\* two statements: the SELECT, which the sqlite3 module runs outside a
\* transaction, and the UPDATE or INSERT, which is one committed transaction.
\* The rest of a call (move, log, statistics) follows as one step.  Nothing
\* fails here: no store or filesystem failure is injected.
Workers == {"w1", "w2"}

InFlight(pc, path, f, file_hash, existing, is_dup, outcome) ==
  [pc |-> pc, path |-> path, f |-> f, file_hash |-> file_hash,
   existing |-> existing, is_dup |-> is_dup, outcome |-> outcome]

\* The calls in flight after worker w's call has become c.
Put(w, c) == [v \in DOMAIN inflight \cup {w} |-> IF v = w THEN c ELSE inflight[v]]

RaceInit ==
  /\ loc = [f \in Files |->
              IF f = "f1" THEN MkPath(WatchDir, "a.txt", 0)
              ELSE IF f = "f2" THEN MkPath(WatchDir, "b.jpg", 0)
              ELSE IF f = "f3" THEN MkPath(WatchDir, "big.mp4", 0) ELSE Nowhere]
  /\ ops = <<>>
  /\ nextId = 1
  /\ index = <<>>
  /\ canon = <<>>
  /\ moved = <<>>
  /\ stats = <<>>
  /\ self_stats = [processed |-> 0, duplicates |-> 0, errors |-> 0]
  /\ enable_duplicates = TRUE
  /\ table = <<>>
  /\ last = Quiet("idle")
  /\ calls = 0
  /\ rules_file = load_rules(Absent).file
  /\ rules = load_rules(Absent).rules
  /\ ai_classification \in BOOLEAN
  /\ Monitoring
  /\ Quiescent

\* What a finished call leaves in the store, the filesystem and the counters.
Returned(w, p, r, flt) ==
  /\ loc' = r.loc
  /\ ops' = r.ops
  /\ nextId' = r.nextId
  /\ index' = r.index
  /\ canon' = r.canon
  /\ moved' = r.moved
  /\ stats' = r.stats
  /\ self_stats' = r.self_stats
  /\ last' = Step("organize", p, r.logId, FileAt(loc, p), Outcome(r.ret), r.ret,
                  r.logId, flt, r.nmoves, r.nhashes)
  /\ calls' = calls + 1

\* Worker w enters organize_file(p) on a file no other worker holds: the
\* existence and size checks (an early return ends the call at once), then
\* compute_hash.
RaceBegin(w, p) ==
  /\ w \notin DOMAIN inflight
  /\ \A v \in DOMAIN inflight : inflight[v].path # p
  /\ Exists(loc, p)
  /\ LET f == FileAt(loc, p)
     IN IF exceeds_limit(SizeOf(f))
        THEN /\ Returned(w, p, organize_file(p, {}, calls + 1), {})
             /\ inflight' = Put(w, InFlight("done", p, f, None, FALSE, FALSE, "TooLarge"))
        ELSE /\ inflight' = Put(w, InFlight("select", p, f, compute_hash(f, FALSE),
                                            FALSE, FALSE, ""))
             /\ UNCHANGED <<loc, ops, nextId, index, canon, moved, stats, self_stats,
                            last, calls>>
  /\ UNCHANGED <<enable_duplicates, table, probe>>
  /\ UNCHANGED engine
  /\ UNCHANGED window

\* add_duplicate_hash, first statement: SELECT ... WHERE file_hash = ?.
RaceSelect(w) ==
  /\ w \in DOMAIN inflight
  /\ inflight[w].pc = "select"
  /\ inflight' = [inflight EXCEPT ![w].pc = "write",
                                  ![w].existing = (inflight[w].file_hash \in DOMAIN index)]
  /\ UNCHANGED <<loc, ops, nextId, index, canon, moved, stats, self_stats,
                 enable_duplicates, table, last, calls, probe>>
  /\ UNCHANGED engine
  /\ UNCHANGED window

\* add_duplicate_hash, second statement on what the SELECT returned: the
\* UPDATE of the row, or the INSERT.  file_hash is UNIQUE: an INSERT of a
\* digest that has a row by now raises, the transaction is rolled back and
\* add_duplicate_hash returns False.
write_hash(idx, existing, file_hash, file_path, file_size, now) ==
  IF existing
  THEN [index |-> IF file_hash \in DOMAIN idx
                  THEN [idx EXCEPT ![file_hash].last_seen = now,
                                   ![file_hash].duplicate_count = @ + 1]
                  ELSE idx,
        is_dup |-> TRUE]
  ELSE IF file_hash \in DOMAIN idx THEN [index |-> idx, is_dup |-> FALSE]
  ELSE add_duplicate_hash(idx, file_hash, file_path, file_size, now, FALSE)

RaceWrite(w) ==
  /\ w \in DOMAIN inflight
  /\ inflight[w].pc = "write"
  /\ LET c == inflight[w]
         r == write_hash(index, c.existing, c.file_hash, c.path, SizeOf(c.f), calls + 1)
     IN /\ index' = r.index
        /\ canon' = IF c.file_hash \in DOMAIN r.index /\ c.file_hash \notin DOMAIN index
                    THEN [h \in DOMAIN r.index |-> IF h = c.file_hash THEN c.f ELSE canon[h]]
                    ELSE canon
        /\ inflight' = [inflight EXCEPT ![w].pc = "rest", ![w].is_dup = r.is_dup]
  /\ UNCHANGED <<loc, ops, nextId, moved, stats, self_stats,
                 enable_duplicates, table, last, calls, probe>>
  /\ UNCHANGED engine
  /\ UNCHANGED window

\* The rest of the call: the duplicate branch or classification and move,
\* the log entry and the statistics.
RaceFinish(w) ==
  /\ w \in DOMAIN inflight
  /\ inflight[w].pc = "rest"
  /\ LET c == inflight[w]
         r == IF c.is_dup
              THEN DuplicateBranch(c.path, c.f, index, canon, SizeOf(c.f), c.file_hash,
                                   {"hash", "dup"}, {}, calls + 1)
              ELSE ClassifyAndMove(c.path, c.f, index, canon, SizeOf(c.f), c.file_hash,
                                   {"hash", "dup"}, {}, calls + 1, 1)
     IN /\ Returned(w, c.path, r, {})
        /\ inflight' = [inflight EXCEPT ![w].pc = "done", ![w].outcome = Outcome(r.ret)]
  /\ UNCHANGED <<enable_duplicates, table, probe>>
  /\ UNCHANGED engine
  /\ UNCHANGED window

RaceNext ==
  \/ \E w \in Workers, p \in WatchPaths : RaceBegin(w, p)
  \/ \E w \in Workers : RaceSelect(w)
  \/ \E w \in Workers : RaceWrite(w)
  \/ \E w \in Workers : RaceFinish(w)

RaceSpec == RaceInit /\ [][RaceNext]_vars

\* ------------------------------------------------- stopping while a call runs
\* The main window's world with calls that take time.  A worker enters
\* organize_file and returns from it in two steps, and stop_monitoring is two
\* steps of the GUI thread: the stop requests (observer.stop(), then
\* BatchOrganizerThread.stop()), and the end of the waits (observer.join(),
\* QThread.wait(2000)) with what follows them.  The watchdog observer thread
\* runs the handler (on_created sleeps, then calls process_file), so the
\* continuous worker's calls are made by "observer".  Duplicate detection is
\* off here.
Call(pc, path) == InFlight(pc, path, NoFile, None, FALSE, FALSE, "")

\* The calls in flight without worker w's.
Drop(w) == [v \in DOMAIN inflight \ {w} |-> inflight[v]]

\* OrganizerThread.running: set by the constructor, cleared by stop(), which
\* stop_monitoring calls after the observer has been joined.
OrganizerRunning == monitoring

\* The loop of BatchOrganizerThread.run going on whatever `running` is.
LoopGoesOn_ignoring_stop(thread) == thread.state \in {"running", "stopping"}

\* `if not self.running: break` at the head of the loop body.
LoopGoesOn(thread) == thread.state = "running"

\* FileWatcher.on_created / on_moved: the observer thread takes an event for
\* a file of the watched folder and sleeps; after observer.stop() no further
\* event is dispatched.
ObserverEvent(p) ==
  /\ monitoring
  /\ "gui" \notin DOMAIN inflight
  /\ "observer" \notin DOMAIN inflight
  /\ Exists(loc, p)
  /\ calls < MaxCalls
  /\ inflight' = Put("observer", Call("handler", p))
  /\ UNCHANGED <<loc, ops, nextId, index, canon, moved, stats, self_stats,
                 enable_duplicates, table, last, calls, probe>>
  /\ UNCHANGED engine
  /\ UNCHANGED window

\* OrganizerThread.process_file, entered by the handler: organize_file is
\* called while the thread's running flag is set.
ObserverEnter ==
  /\ "observer" \in DOMAIN inflight
  /\ inflight["observer"].pc = "handler"
  /\ OrganizerRunning
  /\ inflight' = [inflight EXCEPT !["observer"].pc = "organize"]
  /\ UNCHANGED <<loc, ops, nextId, index, canon, moved, stats, self_stats,
                 enable_duplicates, table, last, calls, probe>>
  /\ UNCHANGED engine
  /\ UNCHANGED window

\* organize_file returns to process_file, which emits file_processed.
ObserverReturn(flt) ==
  /\ "observer" \in DOMAIN inflight
  /\ inflight["observer"].pc = "organize"
  /\ LET p == inflight["observer"].path
         r == organize_file(p, flt, calls + 1)
     IN /\ flt \subseteq r.consulted
        /\ Returned("observer", p, r, flt)
  /\ inflight' = Drop("observer")
  /\ UNCHANGED <<enable_duplicates, table, probe>>
  /\ UNCHANGED engine
  /\ UNCHANGED window

\* BatchOrganizerThread.run: the head of the loop body finds `running` set
\* and organize_file is called on the next file.
BatchEnter ==
  /\ batch_thread.exists
  /\ LoopGoesOn(batch_thread)
  /\ batch_thread.i < Len(batch_thread.files)
  /\ "batch" \notin DOMAIN inflight
  /\ calls < MaxCalls
  /\ inflight' = Put("batch", Call("organize", batch_thread.files[batch_thread.i + 1]))
  /\ UNCHANGED <<loc, ops, nextId, index, canon, moved, stats, self_stats,
                 enable_duplicates, table, last, calls, probe>>
  /\ UNCHANGED engine
  /\ UNCHANGED window

\* organize_file returns to the loop, which counts the result.
BatchReturn(flt) ==
  /\ "batch" \in DOMAIN inflight
  /\ LET p == inflight["batch"].path
         r == organize_file(p, flt, calls + 1)
     IN /\ flt \subseteq r.consulted
        /\ Returned("batch", p, r, flt)
        /\ batch_thread' = BatchIteration(batch_thread, r.ret.success)
  /\ inflight' = Drop("batch")
  /\ UNCHANGED <<enable_duplicates, table, probe>>
  /\ UNCHANGED engine
  /\ UNCHANGED <<sessions, current_session_id, active, monitoring>>

\* The loop is left by `break`: batch_complete is emitted.
BatchBreak ==
  /\ batch_thread.exists
  /\ batch_thread.state = "stopping"
  /\ "batch" \notin DOMAIN inflight
  /\ batch_thread' = [batch_thread EXCEPT !.state = "finished", !.signal = TRUE]
  /\ last' = Quiet("idle")
  /\ UNCHANGED <<loc, ops, nextId, index, canon, moved, stats, self_stats,
                 enable_duplicates, table, calls>>
  /\ UNCHANGED engine
  /\ UNCHANGED aside
  /\ UNCHANGED <<sessions, current_session_id, active, monitoring>>

\* MainWindow.stop_monitoring, up to the waits: observer.stop() ends the
\* dispatch of events, BatchOrganizerThread.stop() clears `running`.  The
\* GUI thread's entry keeps the path of the batch call in flight, if any.
StopRequest ==
  /\ active
  /\ "gui" \notin DOMAIN inflight
  /\ batch_thread' = IF batch_thread.exists /\ batch_thread.state = "running"
                     THEN [batch_thread EXCEPT !.state = "stopping"]
                     ELSE batch_thread
  /\ inflight' = Put("gui", Call("stop_monitoring",
                                 IF "batch" \in DOMAIN inflight
                                 THEN inflight["batch"].path ELSE EmptyPath))
  /\ last' = Quiet("idle")
  /\ UNCHANGED <<loc, ops, nextId, index, canon, moved, stats, self_stats,
                 enable_duplicates, table, calls, probe>>
  /\ UNCHANGED engine
  /\ UNCHANGED <<sessions, current_session_id, active, monitoring>>

\* How far organize_file had got when its thread was terminated.  A move is
\* taken as done or not done.
Cuts == <<"before_move", "after_move", "after_count", "after_log", "after_statistics">>
Passed(cut, point) ==
  \E i, j \in 1..Len(Cuts) : Cuts[i] = cut /\ Cuts[j] = point /\ i >= j

\* What organize_file(p) leaves when it is cut at `cut`.
Terminated(p, cut) ==
  LET r == organize_file(p, {}, calls + 1)
      logged == Passed(cut, "after_log")
  IN [loc |-> IF Passed(cut, "after_move") THEN r.loc ELSE loc,
      self_stats |-> IF Passed(cut, "after_count") THEN r.self_stats ELSE self_stats,
      ops |-> IF logged THEN r.ops ELSE ops,
      nextId |-> IF logged THEN r.nextId ELSE nextId,
      moved |-> IF logged THEN r.moved ELSE moved,
      stats |-> IF Passed(cut, "after_statistics") THEN r.stats ELSE stats]

\* stop_monitoring from the waits on.  observer.join() returns when the
\* handler has returned.  QThread.wait(2000) returns when run() has ended or
\* the two seconds are over; a batch thread still inside organize_file then
\* is terminated, at a point of the call nobody chooses.  Then the threads
\* are dropped, the session is ended and the buttons are reset.
StopJoin(cut) ==
  /\ "gui" \in DOMAIN inflight
  /\ "observer" \notin DOMAIN inflight
  /\ batch_thread.exists /\ batch_thread.state = "stopping" => "batch" \in DOMAIN inflight
  /\ LET cut_short == "batch" \in DOMAIN inflight
         t == IF cut_short THEN Terminated(inflight["batch"].path, cut)
              ELSE [loc |-> loc, self_stats |-> self_stats, ops |-> ops,
                    nextId |-> nextId, moved |-> moved, stats |-> stats]
     IN /\ ~cut_short => cut = "before_move"
        /\ loc' = t.loc
        /\ self_stats' = t.self_stats
        /\ ops' = t.ops
        /\ nextId' = t.nextId
        /\ moved' = t.moved
        /\ stats' = t.stats
        /\ calls' = IF cut_short THEN calls + 1 ELSE calls
        /\ IF current_session_id # 0
           THEN /\ sessions' = end_session(sessions, current_session_id,
                                           t.self_stats.processed, calls + 1, FALSE)
                /\ current_session_id' = 0
           ELSE UNCHANGED <<sessions, current_session_id>>
  /\ monitoring' = FALSE
  /\ batch_thread' = NoThread
  /\ active' = FALSE
  /\ inflight' = <<>>
  /\ last' = Quiet("stop")
  /\ UNCHANGED <<index, canon, enable_duplicates, table, probe>>
  /\ UNCHANGED engine

CancelNext ==
  \/ \E f \in Files, nm \in Names : Arrive(f, nm)
  \/ \E mode \in Modes, files \in Enumerations(loc), reply \in Replies :
       StartMonitoring(mode, files, reply, FALSE)
  \/ \E p \in WatchPaths : ObserverEvent(p)
  \/ ObserverEnter
  \/ \E flt \in SUBSET SessionFaults : ObserverReturn(flt)
  \/ BatchEnter
  \/ \E flt \in SUBSET SessionFaults : BatchReturn(flt)
  \/ BatchExit
  \/ BatchBreak
  \/ "gui" \notin DOMAIN inflight /\ OnBatchComplete
  \/ StopRequest
  \/ \E i \in 1..Len(Cuts) : StopJoin(Cuts[i])

CancelSpec == SessionInit /\ [][CancelNext]_vars

\* ================================================================ claims
Outcomes == {"Organized", "Duplicate", "TooLarge", "NotFound", "Error"}

\* The step just taken is a call of organize_file / a completed undo.
OrganizeStep == calls' = calls + 1 /\ last'.op = "organize"
UndoStep == calls' = calls + 1 /\ last'.op = "undo" /\ last'.outcome = "restored"

\* The ledger row with this id (the row must exist).
EntryOf(o, id) == FindOperation(o, id)[1]
HasEntry(o, id) == FindOperation(o, id) # <<>>

\* C1 (as claimed): with duplicate detection enabled, the first-seen
\* (canonical) file of a digest is never relocated into the duplicates
\* folder, whatever organize and undo operations have run.
C1_CanonicalNeverInDuplicates ==
  enable_duplicates => \A d \in DOMAIN canon : loc[canon[d]].dir # DupDir

\* C2 (as claimed): with duplicate detection enabled, every organize call on
\* an existing, within-limit file whose digest is already in the duplicate
\* index returns Duplicate, leaves the file in the duplicate folder and
\* increases the index entry's repeat counter by exactly one.
C2_SeenDigestIsDuplicate ==
  [][ ( /\ OrganizeStep
        /\ enable_duplicates
        /\ last'.file # NoFile
        /\ SizeOf(last'.file) <= max_file_size_mb * MB
        /\ Sha256(last'.file) \in DOMAIN index )
      => ( /\ last'.outcome = "Duplicate"
           /\ loc'[last'.file].dir = DupDir
           /\ index'[Sha256(last'.file)].duplicate_count
                = index[Sha256(last'.file)].duplicate_count + 1 ) ]_vars

\* C3 (as claimed): every organize invocation produces exactly one of the
\* five outcomes and writes exactly one ledger entry, on every path.
C3_ExactlyOneEntryPerCall ==
  [][ OrganizeStep => (last'.outcome \in Outcomes /\ Len(ops') = Len(ops) + 1) ]_vars

\* C3 (amended): every organize invocation produces exactly one of the five
\* outcomes and makes exactly one ledger write; the write leaves exactly one
\* new entry (whose id is returned), except when the store fails on it, when
\* the ledger is unchanged and the id returned is -1.
C3_OneLedgerWritePerCall ==
  [][ OrganizeStep =>
        /\ last'.outcome \in Outcomes
        /\ IF "log" \in last'.flt
           THEN ops' = ops /\ last'.logId = -1
           ELSE /\ Len(ops') = Len(ops) + 1
                /\ SubSeq(ops', 1, Len(ops)) = ops
                /\ ops'[Len(ops')].id = last'.logId
                /\ ops'[Len(ops')].original_path = last'.path
                /\ ops'[Len(ops')].success = (IF last'.ret.success THEN 1 ELSE 0) ]_vars

\* An early NotFound return has written its entry after an exception path
\* wrote its own.
C3_Witness ==
  /\ last.op = "organize" /\ last.outcome = "NotFound" /\ last.logId = 2
  /\ Len(ops) = 2 /\ ops[1].error_message = MoveErrorText

\* The undo just completed consumed entry e, which organize logged when it
\* moved X to a category destination, and X was still there.
UndoOfOrganized(e, X) ==
  /\ UndoStep
  /\ HasEntry(ops, last'.id) /\ e = EntryOf(ops, last'.id)
  /\ e.operation_type = "organize" /\ e.success = 1
  /\ X = moved[e.id] /\ X # NoFile

\* C4 (as claimed): after organize moved X to a category destination and the
\* resulting entry is undone, X is back at its original path and absent from
\* the destination, the entry's eligibility is false, and the ledger holds
\* one new successful entry of kind undo.
C4_UndoRoundTrip ==
  [][ \A i \in 1..Len(ops) :
        UndoOfOrganized(ops[i], moved[ops[i].id]) =>
          /\ loc'[moved[ops[i].id]] = ops[i].original_path
          /\ ~Exists(loc', ops[i].destination_path)
          /\ EntryOf(ops', ops[i].id).can_undo = 0
          /\ Len(ops') = Len(ops) + 1
          /\ ops'[Len(ops')].operation_type = "undo"
          /\ ops'[Len(ops')].success = 1 ]_vars

\* C4 (amended): after organize moved X to a category destination and the
\* resulting entry is undone while X is still at that destination, X is back
\* at its original path and absent from the destination; the entry's
\* eligibility is false unless the store failed on that update (then it
\* stays true), and the ledger holds one new successful entry of kind undo
\* unless the store failed on that write (then it holds none).
C4_UndoRoundTripBestEffort ==
  [][ \A i \in 1..Len(ops) :
        ( /\ UndoOfOrganized(ops[i], moved[ops[i].id])
          /\ FileAt(loc, ops[i].destination_path) = moved[ops[i].id] ) =>
          /\ loc'[moved[ops[i].id]] = ops[i].original_path
          /\ ~Exists(loc', ops[i].destination_path)
          /\ EntryOf(ops', ops[i].id).can_undo = (IF "mark" \in last'.flt THEN 1 ELSE 0)
          /\ IF "log" \in last'.flt
             THEN Len(ops') = Len(ops)
             ELSE /\ Len(ops') = Len(ops) + 1
                  /\ ops'[Len(ops')].operation_type = "undo"
                  /\ ops'[Len(ops')].success = 1
                  /\ ops'[Len(ops')].original_path = ops[i].destination_path
                  /\ ops'[Len(ops')].destination_path = ops[i].original_path ]_vars

\* An organize entry has been undone: the file it moved is back in the
\* watched folder, the entry is ineligible and an undo entry follows it.
C4_Witness ==
  /\ last.op = "undo" /\ last.outcome = "restored" /\ last.flt = {}
  /\ Len(ops) = 2
  /\ ops[1].operation_type = "organize" /\ ops[1].id = last.id /\ ops[1].can_undo = 0
  /\ ops[2].operation_type = "undo"
  /\ loc[last.file] = ops[1].original_path

\* C5: when the ledger write fails during an organize call, the call still
\* returns one of the outcomes, log_operation has returned the sentinel -1,
\* the ledger is unchanged, a move already performed stays performed, and
\* the outcome returned matches where the file is.
C5_LedgerFailureSwallowed ==
  (last.op = "organize" /\ "log" \in last.flt) =>
    /\ last.logId = -1
    /\ last.outcome \in Outcomes
    /\ last.outcome = "Organized" =>
         last.nmoves = 1 /\ loc[last.file].dir = OrganizedDir(last.ret.category)
    /\ last.outcome = "Duplicate" =>
         last.nmoves = 1 /\ loc[last.file].dir = DupDir
    /\ last.outcome \in {"TooLarge", "Error"} => loc[last.file] = last.path
    /\ last.outcome = "NotFound" => ~Exists(loc, last.path)
    /\ \A i \in 1..Len(ops) : ops[i].timestamp # calls

\* The ledger write failed after the file had been moved to its category.
C5_Witness ==
  /\ last.op = "organize" /\ "log" \in last.flt /\ last.outcome = "Organized"
  /\ loc[last.file].dir = OrganizedDir("Documents")
  /\ ops = <<>>

\* The organize call just made failed at shutil.move.
MoveFailed == OrganizeStep /\ "move" \in last'.flt

ErrorsCount(st) == IF "Errors" \in DOMAIN st THEN st["Errors"].errors_count ELSE 0

\* C6 (as claimed): when the filesystem move fails, organize returns Error,
\* the file is still at its original path, one failed ledger entry carrying
\* the exception text is written, and the (today, "Errors") error count is
\* incremented by exactly one.
C6_MoveFailure ==
  [][ MoveFailed =>
        /\ last'.outcome = "Error"
        /\ loc' = loc
        /\ Len(ops') = Len(ops) + 1
        /\ ops'[Len(ops')].success = 0
        /\ ops'[Len(ops')].error_message = MoveErrorText
        /\ ErrorsCount(stats') = ErrorsCount(stats) + 1 ]_vars

\* C6 (amended): when the filesystem move fails, organize returns Error and
\* the file is still at its original path; one failed ledger entry carrying
\* the exception text is written unless the store fails on that write, and
\* the (today, "Errors") error count is incremented by exactly one unless
\* the store fails on that update.
C6_MoveFailureBestEffort ==
  [][ MoveFailed =>
        /\ last'.outcome = "Error"
        /\ loc' = loc
        /\ IF "log" \in last'.flt THEN ops' = ops
           ELSE /\ Len(ops') = Len(ops) + 1
                /\ SubSeq(ops', 1, Len(ops)) = ops
                /\ ops'[Len(ops')].success = 0
                /\ ops'[Len(ops')].error_message = MoveErrorText
                /\ ops'[Len(ops')].original_path = last'.path
        /\ ErrorsCount(stats') =
             ErrorsCount(stats) + (IF "stat" \in last'.flt THEN 0 ELSE 1) ]_vars

\* A move failed for the second time today: the Errors count stands at 2.
C6_Witness ==
  /\ last.op = "organize" /\ last.flt = {"move"} /\ last.outcome = "Error"
  /\ ErrorsCount(stats) = 2
  /\ loc[last.file] = last.path

\* C7: with duplicate detection enabled, a failure while computing the
\* digest ends the call with Error and the file in place: nothing is moved,
\* no category is assigned and no sighting is recorded in the index.
C7_HashFailureIsError ==
  [][ (OrganizeStep /\ enable_duplicates /\ "hash" \in last'.flt) =>
        /\ last'.outcome = "Error"
        /\ loc' = loc
        /\ last'.nmoves = 0
        /\ last'.ret.category = ""
        /\ index' = index
        /\ \A c \in DOMAIN stats' : c \in DOMAIN stats \/ c = "Errors" ]_vars

\* The digest of a file whose content is already indexed could not be read.
C7_Witness ==
  /\ last.op = "organize" /\ "hash" \in last.flt /\ enable_duplicates
  /\ last.file # NoFile /\ Sha256(last.file) \in DOMAIN index
  /\ last.outcome = "Error"

\* C8: every ledger entry with success = 0 has a non-empty error message and
\* an empty destination path.
C8_FailedEntriesWellFormed ==
  \A i \in 1..Len(ops) :
    ops[i].success = 0 =>
      /\ ops[i].error_message \notin {None, ""}
      /\ ops[i].destination_path = EmptyPath

\* The ledger holds a failed entry from an early return and one from the
\* exception path.
C8_Witness ==
  /\ Len(ops) = 2
  /\ ops[1].success = 0 /\ ops[1].error_message = "File too large (1.0MB)"
  /\ ops[2].success = 0 /\ ops[2].error_message = HashErrorText

\* C9: an entry's eligibility flag only ever changes from 1 to 0, and only
\* in the undo that consumes that entry; entries are never removed or
\* renumbered by organize or undo; marking an entry that is already
\* ineligible leaves the ledger as it is.
C9_EligibilityOnlyFalls ==
  [][ \A i \in 1..Len(ops) :
        /\ i <= Len(ops') /\ ops'[i].id = ops[i].id
        /\ ops'[i].can_undo # ops[i].can_undo =>
             /\ ops[i].can_undo = 1 /\ ops'[i].can_undo = 0
             /\ UndoStep /\ last'.id = ops[i].id /\ "mark" \notin last'.flt
        /\ ops[i].can_undo = 0 =>
             /\ mark_operation_undone(ops, ops[i].id, FALSE) = ops
             /\ ops'[i].can_undo = 0 ]_vars

\* An entry has been consumed by an undo whose own ledger write failed.
C9_Witness ==
  /\ Len(ops) = 1 /\ ops[1].can_undo = 0
  /\ last.op = "undo" /\ last.outcome = "restored" /\ last.flt = {"log"}

\* C10 (as claimed): the entries on which undo is offered are exactly the
\* entries with success = 1 and eligibility = 1, and undo is never applied
\* to a failed entry or to an entry already undone.
C10_UndoOnlyOnEligible ==
  /\ \A r \in 1..Len(table) :
       table[r].button =>
         /\ HasEntry(ops, table[r].id)
         /\ EntryOf(ops, table[r].id).success = 1
         /\ EntryOf(ops, table[r].id).can_undo = 1
  /\ (last.op = "undo" /\ last.outcome \in {"restored", "error"}) =>
       EntryOf(ops, last.id).success = 1

\* The step just taken is an undo the user confirmed on a ledger entry whose
\* recorded destination holds no file.
UndoOfMissing ==
  /\ last'.op = "undo" /\ last'.outcome \notin {"unknown", "cancelled"}
  /\ HasEntry(ops, last'.id)
  /\ ~Exists(loc, EntryOf(ops, last'.id).destination_path)

\* C11: an undo requested for an entry whose file is missing at the recorded
\* destination ends with the not-found report, distinct from the report of
\* other undo errors, and changes nothing: the entry stays eligible, no
\* ledger entry is added, no file is moved and the table still offers the
\* undo, so that it can be retried.
C11_UndoOfMissingChangesNothing ==
  [][ UndoOfMissing =>
        /\ last'.outcome = "missing" /\ last'.outcome # "error"
        /\ ops' = ops /\ nextId' = nextId
        /\ EntryOf(ops', last'.id).can_undo = 1
        /\ loc' = loc /\ last'.nmoves = 0
        /\ table' = table
        /\ \E r \in 1..Len(table') : table'[r].id = last'.id /\ table'[r].button ]_vars

\* An organized file was restored by an undo whose eligibility update failed;
\* undo was then requested again on the same entry.
C11_Witness ==
  /\ last.op = "undo" /\ last.outcome = "missing"
  /\ HasEntry(ops, last.id)
  /\ EntryOf(ops, last.id).operation_type = "organize"
  /\ EntryOf(ops, last.id).success = 1 /\ EntryOf(ops, last.id).can_undo = 1
  /\ ~Exists(loc, EntryOf(ops, last.id).destination_path)

\* The rules of the list that are enabled and whose pattern and conditions
\* hold for file f under this name (positions in the list).
Matching(rs, f, name) ==
  { i \in 1..Len(rs) :
      /\ rs[i].enabled
      /\ ~match_pattern(rs[i].pattern, name).raised
      /\ match_pattern(rs[i].pattern, name).value
      /\ check_conditions(rs[i].conditions, f, name, analyze_file(f, name)) }

\* The first of them.
FirstMatching(rs, f, name) ==
  CHOOSE i \in Matching(rs, f, name) : \A j \in Matching(rs, f, name) : i <= j

\* C12 (as claimed): every file that reaches classification and matches an
\* enabled custom rule is organized under the target folder of the (first)
\* rule it matches, never under the category the content suggestion or the
\* extension table would give.
C12_RulePrecedence ==
  [][ ( /\ OrganizeStep /\ last'.outcome = "Organized"
        /\ Matching(rules, last'.file, last'.path.name) # {} ) =>
        LET target == rules[FirstMatching(rules, last'.file, last'.path.name)].target_folder
        IN /\ last'.ret.category = target
           /\ loc'[last'.file].dir = OrganizedDir(target) ]_vars

\* C13: a file whose size is exactly max_file_size_mb * 2^20 bytes is accepted
\* and processed (without a failure it ends Organized or Duplicate, moved out
\* of the watched folder; it never ends TooLarge), while a file one byte
\* larger is rejected with TooLarge and stays at its original path.
C13_SizeBoundary ==
  [][ (OrganizeStep /\ last'.file # NoFile) =>
        /\ SizeOf(last'.file) = max_file_size_mb * MB =>
              /\ last'.outcome \in {"Organized", "Duplicate", "Error"}
              /\ last'.flt = {} =>
                    /\ last'.outcome \in {"Organized", "Duplicate"}
                    /\ loc'[last'.file].dir # WatchDir /\ last'.nmoves = 1
        /\ SizeOf(last'.file) = max_file_size_mb * MB + 1 =>
              /\ last'.outcome = "TooLarge"
              /\ loc' = loc /\ last'.nmoves = 0 ]_vars

\* The file one byte over the limit was rejected and is still in the watched
\* folder; a file exactly at the limit was then organized.
C13_Witness ==
  /\ Len(ops) = 2
  /\ ops[1].error_message = "File too large (1.0MB)" /\ ops[1].file_size = max_file_size_mb * MB + 1
  /\ loc["f3"] = ops[1].original_path
  /\ last.op = "organize" /\ last.outcome = "Organized"
  /\ ops[2].file_size = max_file_size_mb * MB /\ ops[2].success = 1

\* C14: an organize call that ends NotFound or TooLarge moves no file,
\* computes no digest and leaves the duplicate index, the statistics and the
\* organizer's counters unchanged; its only effect on the store is the one
\* failed ledger entry appended for the call.
C14_EarlyReturnFrame ==
  [][ (OrganizeStep /\ last'.outcome \in {"NotFound", "TooLarge"}) =>
        /\ loc' = loc /\ last'.nmoves = 0
        /\ last'.nhashes = 0
        /\ index' = index /\ canon' = canon
        /\ stats' = stats /\ self_stats' = self_stats
        /\ Len(ops') <= Len(ops) + 1
        /\ SubSeq(ops', 1, Len(ops)) = ops
        /\ \A i \in (Len(ops) + 1)..Len(ops') :
              /\ ops'[i].success = 0
              /\ ops'[i].original_path = last'.path
              /\ ops'[i].error_message = last'.ret.message ]_vars

\* With duplicate detection enabled, a call ended TooLarge and the next one
\* NotFound; each left its failed entry.
C14_Witness ==
  /\ enable_duplicates /\ last.op = "organize" /\ last.outcome = "NotFound"
  /\ Len(ops) = 2 /\ ops[1].error_message = "File too large (1.0MB)"
  /\ ops[2].error_message = "File not found"

\* C15: when the candidate destination exists, the destination used is
\* stem_k.ext for the smallest k >= 1 at which no file exists (the candidate
\* itself when it is free), and organize never overwrites a file: no other
\* file changes place.  Three files of one name sent to one category land at
\* name, name_1 and name_2.
C15_CollisionAvoidance ==
  [][ (OrganizeStep /\ last'.outcome \in {"Organized", "Duplicate"}) =>
        LET dest == loc'[last'.file]
            candidate == MkPath(dest.dir, last'.path.name, 0)
        IN /\ dest.name = last'.path.name
           /\ dest.dir = IF last'.outcome = "Duplicate" THEN DupDir
                         ELSE OrganizedDir(last'.ret.category)
           /\ ~Exists(loc, dest)
           /\ \A k \in 0..(dest.n - 1) : Exists(loc, MkPath(dest.dir, dest.name, k))
           /\ \A g \in Files \ {last'.file} : loc'[g] = loc[g] ]_vars

\* Three files named alike were organized into one category one after the
\* other: they are at name, name_1 and name_2.
C15_Witness ==
  \E f, g, h \in Files :
    /\ loc[f] = MkPath(OrganizedDir("Documents"), SameName, 0)
    /\ loc[g] = MkPath(OrganizedDir("Documents"), SameName, 1)
    /\ loc[h] = MkPath(OrganizedDir("Documents"), SameName, 2)
    /\ Len(ops) = 3 /\ ops[3].destination_path = loc[h]

\* Today's (date, category) statistic: its file count and size sum, 0 while
\* there is no row.
FilesProcessed(st, c) == IF c \in DOMAIN st THEN st[c].files_processed ELSE 0
TotalSize(st, c) == IF c \in DOMAIN st THEN st[c].total_size ELSE 0
Categories == DOMAIN stats \cup DOMAIN stats'

\* The step is an organize call that ended Organized into category c.
OrganizedInto(c) == OrganizeStep /\ last'.outcome = "Organized" /\ last'.ret.category = c

\* C16 (as claimed): every organize call that ends Organized into category C
\* adds exactly one to the (today, C) file count and the file's byte size to
\* its size sum, and no other step changes that statistic; so N such calls
\* add exactly N and the sum of their sizes, whatever is interleaved.
C16_StatisticsAccumulate ==
  [][ \A c \in (Categories \cup {last'.ret.category}) \ {"Duplicates", "Errors", ""} :
        IF OrganizedInto(c)
        THEN /\ FilesProcessed(stats', c) = FilesProcessed(stats, c) + 1
             /\ TotalSize(stats', c) = TotalSize(stats, c) + SizeOf(last'.file)
        ELSE /\ FilesProcessed(stats', c) = FilesProcessed(stats, c)
             /\ TotalSize(stats', c) = TotalSize(stats, c) ]_vars

\* C16 (amended): the same, except that a call whose statistics update fails
\* in the store (the failure is swallowed) leaves the statistic unchanged.
C16_StatisticsAccumulateBestEffort ==
  [][ \A c \in (Categories \cup {last'.ret.category}) \ {"Duplicates", "Errors", ""} :
        IF OrganizedInto(c) /\ "stat" \notin last'.flt
        THEN /\ FilesProcessed(stats', c) = FilesProcessed(stats, c) + 1
             /\ TotalSize(stats', c) = TotalSize(stats, c) + SizeOf(last'.file)
        ELSE /\ FilesProcessed(stats', c) = FilesProcessed(stats, c)
             /\ TotalSize(stats', c) = TotalSize(stats, c) ]_vars

\* Two files were organized into Documents today: the statistic counts two
\* files and the sum of their sizes.
C16_Witness ==
  /\ last.op = "organize" /\ last.outcome = "Organized" /\ last.ret.category = "Documents"
  /\ Len(ops) = 2 /\ ops[1].category = "Documents" /\ ops[1].success = 1
  /\ "Documents" \in DOMAIN stats
  /\ stats["Documents"].files_processed = 2
  /\ stats["Documents"].total_size = ops[1].file_size + ops[2].file_size

\* The list is in descending order of priority.
Sorted(rs) == \A i, j \in 1..Len(rs) : i < j => rs[i].priority >= rs[j].priority

\* Position of the rule with this id in a list, 0 when it is not there.
PositionOf(rs, id) == FirstWithId(rs, id)

\* C17 (as claimed): after any sequence of load, add, update, remove and
\* toggle, the rule list is sorted by descending priority and rules of equal
\* priority appear in the order of their insertion.  Ids are handed out in
\* increasing order (get_next_id) and the files loaded list their rules in
\* id order, so insertion order is the order of the ids.
C17_SortedTiesByInsertion ==
  /\ Sorted(rules)
  /\ \A i, j \in 1..Len(rules) :
       (i < j /\ rules[i].priority = rules[j].priority) => rules[i].id < rules[j].id

\* Rules of equal priority in `after` stand in the order they had in
\* `before`; a rule that was not in `before` stands behind them.
TiesKeepOrder(before, after) ==
  \A i, j \in 1..Len(after) :
    (i < j /\ after[i].priority = after[j].priority /\ PositionOf(before, after[j].id) # 0) =>
      /\ PositionOf(before, after[i].id) # 0
      /\ PositionOf(before, after[i].id) < PositionOf(before, after[j].id)

\* C17 (amended): after any sequence of load, add, update, remove and toggle,
\* the rule list is sorted by descending priority; rules of equal priority
\* appear in the order they had in the list before the operation (in the
\* file, for a load), and a rule just added comes after them.
C17_SortedStable ==
  [][ /\ Sorted(rules) /\ Sorted(rules')
      /\ TiesKeepOrder(IF last'.op = "load" THEN rules_file'.data ELSE rules, rules') ]_vars

\* A rule was raised (or lowered) to the priority of a rule inserted before
\* it and stands in front of that rule.
C17_Witness ==
  /\ Len(rules) = 2 /\ rules[1].priority = rules[2].priority
  /\ rules[1].id > rules[2].id
  /\ last.op = "idle"

\* What apply_rules returns for file f under this name.
Applied(f, name) == apply_rules(rules, f, name, analyze_file(f, name))

\* C18: apply_rules returns the target folder of the first rule, in sorted
\* order, that is enabled and whose pattern and conditions all hold for the
\* file, and None when there is no such rule; a disabled rule never
\* determines the result.
C18_ApplyFirstEnabledMatch ==
  \A f \in Files, name \in Names :
    LET M == Matching(rules, f, name)
    IN /\ M = {} => Applied(f, name) = None
       /\ M # {} =>
            LET first == FirstMatching(rules, f, name)
            IN /\ Applied(f, name) = rules[first].target_folder
               /\ rules[first].enabled
               /\ \A j \in M : rules[first].priority >= rules[j].priority
               /\ \A j \in 1..(first - 1) :
                     \/ ~rules[j].enabled
                     \/ ~match_pattern(rules[j].pattern, name).value
                     \/ ~check_conditions(rules[j].conditions, f, name, analyze_file(f, name))

\* The rule of highest priority fits a.txt but is disabled, the next one is
\* enabled and its condition holds: its target is returned.  For b.jpg no
\* rule holds and None is returned.
C18_Witness ==
  /\ Len(rules) = 2
  /\ ~rules[1].enabled /\ rules[1].pattern = "*.txt" /\ rules[1].conditions = NoConditions
  /\ rules[1].priority > rules[2].priority
  /\ rules[2].enabled /\ rules[2].target_folder = "Finance/Invoices"
  /\ Applied("f1", "a.txt") = "Finance/Invoices"
  /\ Applied("f2", "b.jpg") = None

\* C19: every session created at a start is closed (end time set, status
\* completed) once that organization has stopped: a session that the window
\* no longer holds as its current session, which no later stop can end, is
\* completed.
C19_AbandonedSessionsAreClosed ==
  \A k \in 1..Len(sessions) :
    sessions[k].id # current_session_id =>
      sessions[k].status = "completed" /\ sessions[k].end_time # 0

\* C20: a batch worker that is not stopped invokes organize exactly once on
\* each enumerated file, in enumeration order, and goes on after a failed
\* outcome: the ledger entries written since the worker started are those of
\* the files enumerated so far, one each and in that order, every outcome is
\* counted, and the worker finishes only after the last file.
C20_BatchProcessesEveryFileInOrder ==
  batch_thread.exists =>
    /\ batch_thread.i <= Len(batch_thread.files)
    /\ Len(ops) >= batch_thread.base + batch_thread.i
    /\ batch_thread.state = "running" => Len(ops) = batch_thread.base + batch_thread.i
    /\ \A k \in 1..batch_thread.i :
         ops[batch_thread.base + k].original_path = batch_thread.files[k]
    /\ batch_thread.success + batch_thread.failed = batch_thread.i
    /\ batch_thread.failed =
         Cardinality({k \in 1..batch_thread.i : ops[batch_thread.base + k].success = 0})
    /\ batch_thread.state = "finished" => batch_thread.i = Len(batch_thread.files)

\* C20 witness: a batch of two files has finished, the first with a failed
\* outcome and the second organized.
C20_Witness ==
  /\ batch_thread.exists
  /\ batch_thread.state = "finished"
  /\ Len(batch_thread.files) = 2
  /\ ops[batch_thread.base + 1].success = 0
  /\ ops[batch_thread.base + 2].success = 1
  /\ batch_thread.failed = 1
  /\ batch_thread.success = 1

\* C22: each organize call performs exactly one filesystem move when its
\* outcome is Organized or Duplicate (the file of the call, and no other,
\* changes place) and no move for any other outcome, and computes the file's
\* digest at most once.
C22_OneMoveAtMostOneDigest ==
  [][ OrganizeStep =>
        /\ last'.nhashes <= 1
        /\ last'.outcome \in {"Organized", "Duplicate"} =>
              /\ last'.nmoves = 1
              /\ {f \in Files : loc'[f] # loc[f]} = {last'.file}
        /\ last'.outcome \notin {"Organized", "Duplicate"} =>
              /\ last'.nmoves = 0
              /\ loc' = loc ]_vars

\* C22 witness: a call ended Duplicate after one digest computation and one
\* move into the duplicates folder, after an earlier call ended Organized
\* with one move.
C22_Witness ==
  /\ last.op = "organize" /\ last.outcome = "Duplicate"
  /\ last.nmoves = 1 /\ last.nhashes = 1
  /\ loc[last.file].dir = DupDir
  /\ Len(ops) = 2 /\ ops[1].success = 1 /\ ops[1].operation_type = "organize"
  /\ loc[moved[ops[1].id]] = ops[1].destination_path

\* C24: every ledger operation is all-or-nothing and its failure is visible
\* to the caller: a failed write leaves the store unchanged and returns a
\* value that no successful call returns - for log_operation an id no insert
\* gives, for add_duplicate_hash a value other than that of a first sighting
\* and that of a repeat.
C24_LedgerFailureVisible ==
  \A h \in {Sha256(f) : f \in Files} :
    LET p == MkPath(WatchDir, "a.txt", 0)
        e == Entry("a.txt", p, EmptyPath, "", "organize", MB, h, FALSE, None)
        logged == log_operation(ops, nextId, calls + 1, e, FALSE)
        unlogged == log_operation(ops, nextId, calls + 1, e, TRUE)
        first == add_duplicate_hash(<<>>, h, p, MB, calls + 1, FALSE)
        repeat == add_duplicate_hash(first.index, h, p, MB, calls + 1, FALSE)
        failed == add_duplicate_hash(index, h, p, MB, calls + 1, TRUE)
    IN /\ unlogged.ops = ops /\ unlogged.id # logged.id
       /\ update_statistics(stats, "Documents", 1, MB, 0, 0, TRUE) = stats
       /\ mark_operation_undone(ops, 1, TRUE) = ops
       /\ failed.index = index
       /\ failed.is_dup # first.is_dup
       /\ failed.is_dup # repeat.is_dup

\* C27: a failed organize outcome carries the attempted category when one
\* had been resolved before the failure: when the move that follows the
\* classification fails, the tuple returned reports the category the file
\* was classified under.
C27_FailureCarriesCategory ==
  [][ (MoveFailed /\ ~enable_duplicates) =>
        /\ last'.outcome = "Error"
        /\ last'.ret.category = Categorize(last'.file, last'.path.name) ]_vars

\* An add, update, remove or toggle of the rules dialog (each changes the
\* list; a reload of the file is marked "load").
RuleMutation == last'.op # "load" /\ rules' # rules

C25_Tier2Decides ==
  probe.stage = "classified" =>
    LET custom == IF probe.has_engine
                  THEN apply_rules(rules, probe.f, probe.name, probe.analysis)
                  ELSE None
        suggested == probe.analysis.suggested_category
    IN /\ probe.tier = 2 <=> (custom = None /\ probe.has_analyzer /\ ai_classification)
       /\ probe.tier = 2 =>
            probe.category = IF suggested # None THEN suggested
                             ELSE IF classify_by_name(probe.name) # None
                             THEN classify_by_name(probe.name)
                             ELSE classify_by_extension(probe.name)

\* C25 witness: tier 2 has decided for a file whose text suggests "Work" and
\* whose name holds a keyword of "Education": the suggestion has won.
C25_Witness ==
  /\ probe.stage = "classified"
  /\ probe.tier = 2
  /\ probe.analysis.suggested_category = "Work"
  /\ classify_by_name(probe.name) = "Education"
  /\ probe.category = "Work"

\* ---------------------------------------------------------------- C26
\* C26: whenever tier 3 assigns the category, for every configuration, the
\* category is the extension table's entry for the file's suffix, "Other"
\* when the table has none; keywords in the file name play no part.
C26_Tier3IsExtensionLookup ==
  (probe.stage = "classified" /\ probe.tier = 3) =>
    probe.category = classify_by_extension(probe.name)

\* ---------------------------------------------------------------- C29
\* A rule on every file name whose only condition is has_gps = v.
GpsRule(v) == Rule(1, "gps", "*", "Sorted", Cond("has_gps", v), 1, TRUE)

\* C29: on an analyzed file, a rule requiring GPS presence matches exactly
\* when the analyzed metadata reports GPS, and a rule requiring GPS absence
\* matches exactly when the analyzed metadata reports none.
C29_GpsBothPolarities ==
  probe.stage = "analyzed" =>
    LET reports_gps == "has_gps" \in DOMAIN probe.analysis.metadata
    IN /\ matches(GpsRule(TRUE), probe.f, probe.name, probe.analysis) = reports_gps
       /\ matches(GpsRule(FALSE), probe.f, probe.name, probe.analysis) = ~reports_gps

\* ---------------------------------------------------------------- C30
\* C30: for every analysis result the suggested category is Finance if a
\* financial keyword was found, else Work, else Personal by their keywords,
\* else Photos if camera metadata is present, else Scanned Documents if the
\* extracted text is longer than 100 characters, else none.
C30_SuggestionCascade ==
  probe.stage = "analyzed" =>
    LET a == probe.analysis
    IN a.suggested_category =
         IF a.keywords \cap {"invoice", "receipt", "payment", "bill", "tax"} # {}
         THEN "Finance"
         ELSE IF a.keywords \cap {"report", "presentation", "meeting", "project"} # {}
         THEN "Work"
         ELSE IF a.keywords \cap {"vacation", "family", "personal"} # {}
         THEN "Personal"
         ELSE IF "camera_make" \in DOMAIN a.metadata THEN "Photos"
         ELSE IF Len(a.content_text) > 100 THEN "Scanned Documents"
         ELSE None

\* ---------------------------------------------------------------- C23
\* C23: when two workers have each finished an organize call on one of two
\* files of the same digest, which had no row when the calls began, the
\* duplicate index holds one row for the digest with duplicate_count 1, one
\* call has treated its file as the first sighting and the other has ended
\* Duplicate.
C23_ConcurrentSightings ==
  (/\ DOMAIN inflight = Workers
   /\ \A w \in Workers : inflight[w].pc = "done" /\ inflight[w].file_hash = "d1") =>
    /\ DOMAIN index = {"d1"}
    /\ index["d1"].duplicate_count = 1
    /\ \E w \in Workers :
         /\ ~inflight[w].is_dup
         /\ \A v \in Workers \ {w} : inflight[v].is_dup /\ inflight[v].outcome = "Duplicate"

\* ---------------------------------------------------------------- C21
\* The worker's stop signal is set: `running` of the batch thread, or of the
\* organizer thread, has been cleared.
StopSignalSet(w) ==
  IF w = "batch" THEN batch_thread.exists /\ batch_thread.state # "running"
  ELSE ~OrganizerRunning

\* This step takes worker w into organize_file / out of it.
CallStarts(w) ==
  /\ w \notin DOMAIN inflight \/ inflight[w].pc # "organize"
  /\ w \in DOMAIN inflight'
  /\ inflight'[w].pc = "organize"
CallEnds(w) ==
  /\ w \in DOMAIN inflight
  /\ inflight[w].pc = "organize"
  /\ w \notin DOMAIN inflight'

\* The step leaves what the call r leaves: its move, its ledger entry, its
\* statistics.
LeavesAll(r) ==
  loc' = r.loc /\ ops' = r.ops /\ stats' = r.stats /\ self_stats' = r.self_stats
RanToCompletion(w) ==
  \E flt \in SUBSET SessionFaults : LeavesAll(organize_file(inflight[w].path, flt, calls + 1))

\* The step leaves the beginning of what the call r leaves: nothing, or the
\* move, or the move and the ledger entry.
LeavesBeginning(r) ==
  /\ loc' \in {loc, r.loc}
  /\ ops' \in {ops, r.ops}
  /\ stats' = stats
  /\ ops' # ops => loc' = r.loc
CutShort(w) == LeavesBeginning(organize_file(inflight[w].path, {}, calls + 1))

\* C21 (as stated): once a worker's stop signal is set it starts no organize
\* call, and a call in flight ends only by running to completion, its move
\* and its ledger write included.
C21_CooperativeCancellation ==
  [][ \A w \in {"batch", "observer"} :
        /\ CallStarts(w) => ~StopSignalSet(w)
        /\ CallEnds(w) => RanToCompletion(w) ]_vars

\* C21 (amended): once a worker's stop signal is set it starts no organize
\* call; a call in flight runs to completion, except that a call of the batch
\* worker still running when the wait of stop_monitoring is over is cut with
\* its thread: it then leaves nothing, or its move, or its move and its
\* ledger entry.
C21_CancellationWithinGrace ==
  [][ \A w \in {"batch", "observer"} :
        /\ CallStarts(w) => ~StopSignalSet(w)
        /\ CallEnds(w) =>
             \/ RanToCompletion(w)
             \/ /\ w = "batch"
                /\ "gui" \in DOMAIN inflight
                /\ StopSignalSet(w)
                /\ CutShort(w) ]_vars

\* C21 witness: stop was requested while the batch worker was inside a call;
\* the call has run to completion (file moved, entry logged) and the next
\* file of the batch has not been started.
C21_Witness ==
  /\ "gui" \in DOMAIN inflight
  /\ inflight["gui"].path # EmptyPath
  /\ "batch" \notin DOMAIN inflight
  /\ batch_thread.state = "stopping"
  /\ batch_thread.i < Len(batch_thread.files)
  /\ last.op = "organize"
  /\ last.path = inflight["gui"].path
  /\ last.outcome = "Organized"
  /\ Len(ops) = batch_thread.base + batch_thread.i
  /\ ops[Len(ops)].original_path = last.path

\* -------------------------------------------------- retention of the ledger
\* The store of RetentionSpec outlives the runs of the program: its ledger
\* holds entries of earlier days.  Time is counted in quarters of a day; a
\* timestamp is the local time of datetime.now().
LocalDate(t) == t \div 4

\* The offsets of local time from UTC explored, in quarters of a day.
Zones == {-1, 0, 1}

\* What the dialog of MainWindow.clear_old_data lets the user enter (1..365).
DayChoices == {1, 2}

\* date('now', '-days days'): the UTC calendar date, `days` days back.
CutoffDate(now, zone, days) == LocalDate(now - zone) - days

\* timestamp < date(...) on TEXT: an isoformat timestamp 'YYYY-MM-DDTHH:MM:SS'
\* precedes a date 'YYYY-MM-DD' exactly when its own date part precedes it (on
\* equal date parts the longer string is the greater).
TextLess(timestamp, date) == LocalDate(timestamp) < date

\* Database.clear_old_data: DELETE FROM file_operations WHERE timestamp <
\* date('now', ...); a failed transaction is rolled back and swallowed.
clear_old_data(o, now, zone, days, fail) ==
  LET Kept(e) == ~TextLess(e.timestamp, CutoffDate(now, zone, days))
  IN IF fail THEN o ELSE SelectSeq(o, Kept)

\* The ledgers left by earlier runs: up to two entries, in insertion order,
\* logged at the instants 0..11 (three days).
OldEntry(id, t) ==
  [Entry("a.txt", MkPath(WatchDir, "a.txt", 0), MkPath(OrganizedDir("Documents"), "a.txt", 0),
         "Documents", "organize", SizeOf("f1"), Sha256("f1"), TRUE, None)
     EXCEPT !.id = id, !.timestamp = t]

OldLedgers ==
  {<<>>} \cup {<<OldEntry(1, t)>> : t \in 0..11}
         \cup {<<OldEntry(1, t), OldEntry(2, u)>> : t \in 0..11, u \in 0..11}

RetentionInit ==
  /\ loc = [f \in Files |-> Nowhere]
  /\ ops \in OldLedgers
  /\ \A i \in 1..Len(ops) - 1 : ops[i].timestamp <= ops[i + 1].timestamp
  /\ nextId = Len(ops) + 1
  /\ index = add_duplicate_hash(<<>>, Sha256("f1"), MkPath(WatchDir, "a.txt", 0),
                                SizeOf("f1"), 0, FALSE).index
  /\ canon = <<>>
  /\ moved = <<>>
  /\ stats = update_statistics(<<>>, "Documents", 1, SizeOf("f1"), 0, 0, FALSE)
  /\ self_stats = [processed |-> 0, duplicates |-> 0, errors |-> 0]
  /\ enable_duplicates = TRUE
  /\ table = <<>>
  /\ last = Quiet("idle")
  /\ calls = 12
  /\ rules_file = load_rules(Absent).file
  /\ rules = load_rules(Absent).rules
  /\ ai_classification = FALSE
  /\ Stopped
  /\ Quiescent

\* A quarter of a day passes.
Pass ==
  /\ calls < 15
  /\ calls' = calls + 1
  /\ last' = Quiet("idle")
  /\ UNCHANGED <<loc, ops, nextId, index, canon, moved, stats, self_stats,
                 enable_duplicates, table>>
  /\ UNCHANGED engine
  /\ UNCHANGED window
  /\ UNCHANGED aside

\* MainWindow.clear_old_data, confirmed: Database.clear_old_data(days).
ClearOldData(days, zone, fail) ==
  /\ ops' = clear_old_data(ops, calls, zone, days, fail)
  /\ last' = [op |-> "clear", days |-> days, zone |-> zone, failed |-> fail]
  /\ UNCHANGED <<loc, nextId, index, canon, moved, stats, self_stats,
                 enable_duplicates, table, calls>>
  /\ UNCHANGED engine
  /\ UNCHANGED window
  /\ UNCHANGED aside

RetentionNext ==
  \/ Pass
  \/ \E days \in DayChoices, zone \in Zones, fail \in BOOLEAN : ClearOldData(days, zone, fail)

RetentionSpec == RetentionInit /\ [][RetentionNext]_vars

\* ---- C31
\* An entry is older than the cutoff when more than `days` whole days lie
\* between its timestamp and now.
OlderThan(e, now, days) == e.timestamp < now - 4 * days

ClearStep == last'.op = "clear"

\* C31: retention pruning removes exactly the operation entries
\* older than the cutoff and leaves the newer entries, the duplicate index
\* and the daily statistics unchanged.
C31_PruneExactlyOlder ==
  [][ClearStep =>
       LET Newer(e) == ~OlderThan(e, calls, last'.days)
       IN /\ ops' = SelectSeq(ops, Newer)
          /\ index' = index
          /\ stats' = stats]_vars

\* ------------------------------------------- patterns, character by character
\* A pattern and a file name are sequences of characters here, a path is the
\* sequence of its components; match_pattern above is Rule._match_pattern on
\* the glob patterns of the default rules, taken as wholes.
\* The patterns a user enters in the rule editor, as characters:
\*   *invoice*
\*   invoice_[0-9]+\.pdf
\*   *.pdf
\*   *
\*   ?.txt
\*   ^inv
\*   \.pdf$
\*   (a)\.txt
\*   [a-c]+.txt
\*   watch/*.txt
\*   (
\*   (empty)
MatchPatterns ==
  {<<"*", "i", "n", "v", "o", "i", "c", "e", "*">>,
   <<"i", "n", "v", "o", "i", "c", "e", "_", "[", "0", "-", "9", "]", "+", "\\", ".", "p", "d", "f">>,
   <<"*", ".", "p", "d", "f">>,
   <<"*">>,
   <<"?", ".", "t", "x", "t">>,
   <<"^", "i", "n", "v">>,
   <<"\\", ".", "p", "d", "f", "$">>,
   <<"(", "a", ")", "\\", ".", "t", "x", "t">>,
   <<"[", "a", "-", "c", "]", "+", ".", "t", "x", "t">>,
   <<"w", "a", "t", "c", "h", "/", "*", ".", "t", "x", "t">>,
   <<"(">>,
   <<>>}

\* The file names, as characters:
\*   March_invoice.pdf
\*   invoice_42.pdf
\*   invoice_abc.pdf
\*   INVOICE_7.PDF
\*   a.txt
\*   invoice_42.pdf.bak
MatchNames ==
  {<<"M", "a", "r", "c", "h", "_", "i", "n", "v", "o", "i", "c", "e", ".", "p", "d", "f">>,
   <<"i", "n", "v", "o", "i", "c", "e", "_", "4", "2", ".", "p", "d", "f">>,
   <<"i", "n", "v", "o", "i", "c", "e", "_", "a", "b", "c", ".", "p", "d", "f">>,
   <<"I", "N", "V", "O", "I", "C", "E", "_", "7", ".", "P", "D", "F">>,
   <<"a", ".", "t", "x", "t">>,
   <<"i", "n", "v", "o", "i", "c", "e", "_", "4", "2", ".", "p", "d", "f", ".", "b", "a", "k">>}

\* The folder the files are in: watch.
MatchDir == <<"w", "a", "t", "c", "h">>

\* The order of the characters a class range runs over.
Alphabet ==
  <<"0", "1", "2", "3", "4", "5", "6", "7", "8", "9", "a", "b", "c", "d", "e", "f", "g", "h", "i", "j", "k", "l", "m", "n", "o", "p",
    "q", "r", "s", "t", "u", "v", "w", "x", "y", "z">>

\* str.lower on the characters of the model.
Lower(c) ==
  IF c = "M" THEN "m"
  ELSE IF c = "I" THEN "i"
  ELSE IF c = "N" THEN "n"
  ELSE IF c = "V" THEN "v"
  ELSE IF c = "O" THEN "o"
  ELSE IF c = "C" THEN "c"
  ELSE IF c = "E" THEN "e"
  ELSE IF c = "P" THEN "p"
  ELSE IF c = "D" THEN "d"
  ELSE IF c = "F" THEN "f"
  ELSE c

MatchPaths == {<<MatchDir, name>> : name \in MatchNames}

\* fnmatch.fnmatchcase on patterns of *, ? and literal characters: the whole
\* name has to match.
RECURSIVE fnmatchcase(_, _)
fnmatchcase(name, pat) ==
  IF pat = <<>> THEN name = <<>>
  ELSE IF Head(pat) = "*"
  THEN fnmatchcase(name, Tail(pat)) \/ (name # <<>> /\ fnmatchcase(Tail(name), pat))
  ELSE /\ name # <<>>
       /\ Head(pat) = "?" \/ Head(pat) = Head(name)
       /\ fnmatchcase(Tail(name), Tail(pat))

\* The components of a relative pattern: str.split on "/", empty ones dropped.
FirstSlash(text) ==
  IF \E i \in 1..Len(text) : text[i] = "/"
  THEN CHOOSE i \in 1..Len(text) : text[i] = "/" /\ \A j \in 1..(i - 1) : text[j] # "/"
  ELSE 0
RECURSIVE SplitAt(_, _)
SplitAt(text, i) ==
  IF text = <<>> THEN <<>>
  ELSE IF i = 0 THEN <<text>>
  ELSE (IF i = 1 THEN <<>> ELSE <<SubSeq(text, 1, i - 1)>>)
       \o SplitAt(SubSeq(text, i + 1, Len(text)), FirstSlash(SubSeq(text, i + 1, Len(text))))
SplitParts(text) == SplitAt(text, FirstSlash(text))

\* PurePath.match(pattern) for a relative pattern: an empty pattern raises
\* ValueError; the pattern's components are matched against the last
\* components of the path, from the right.
match_parts(parts, pat_parts) ==
  IF pat_parts = <<>> THEN [raised |-> TRUE, value |-> FALSE]
  ELSE [raised |-> FALSE,
        value |-> /\ Len(pat_parts) <= Len(parts)
                  /\ \A k \in 0..(Len(pat_parts) - 1) :
                       fnmatchcase(parts[Len(parts) - k], pat_parts[Len(pat_parts) - k])]
path_match(parts, pattern) == match_parts(parts, SplitParts(pattern))

\* A character class [...]: single characters and ranges x-y.
Position(c) == CHOOSE i \in 1..Len(Alphabet) : Alphabet[i] = c
Range(x, y) == {Alphabet[i] : i \in Position(x)..Position(y)}
RECURSIVE ClassSet(_)
ClassSet(body) ==
  IF body = <<>> THEN {}
  ELSE IF Len(body) >= 3 /\ body[2] = "-"
  THEN Range(body[1], body[3]) \cup ClassSet(SubSeq(body, 4, Len(body)))
  ELSE {Head(body)} \cup ClassSet(Tail(body))
Closing(pat) == CHOOSE i \in 2..Len(pat) : pat[i] = "]" /\ \A j \in 2..(i - 1) : pat[j] # "]"

\* The first atom of a regular expression: an escaped character, a class,
\* the dot, or a literal; `len` is the number of pattern characters it takes.
Atom(pat) ==
  IF Head(pat) = "\\" THEN [any |-> FALSE, set |-> {pat[2]}, len |-> 2]
  ELSE IF Head(pat) = "["
  THEN [any |-> FALSE, set |-> ClassSet(SubSeq(pat, 2, Closing(pat) - 1)), len |-> Closing(pat)]
  ELSE IF Head(pat) = "." THEN [any |-> TRUE, set |-> {}, len |-> 1]
  ELSE [any |-> FALSE, set |-> {Head(pat)}, len |-> 1]
After(pat, n) == SubSeq(pat, n + 1, Len(pat))

Accepts(atom, c, ignorecase) ==
  \/ atom.any
  \/ IF ignorecase THEN \E x \in atom.set : Lower(x) = Lower(c) ELSE c \in atom.set

\* Whether a regular expression matches a prefix of s (the fragment of the
\* model: atoms with +, * and ?, the anchors, and groups without quantifier);
\* `start` says that s begins where the file name begins.
RECURSIVE re_from(_, _, _, _)
RECURSIVE re_many(_, _, _, _)
re_atom(atom, rest, s, ignorecase) ==
  IF rest # <<>> /\ Head(rest) = "+"
  THEN s # <<>> /\ Accepts(atom, Head(s), ignorecase) /\ re_many(atom, Tail(rest), Tail(s), ignorecase)
  ELSE IF rest # <<>> /\ Head(rest) = "*" THEN re_many(atom, Tail(rest), s, ignorecase)
  ELSE IF rest # <<>> /\ Head(rest) = "?"
  THEN \/ re_from(Tail(rest), s, FALSE, ignorecase)
       \/ s # <<>> /\ Accepts(atom, Head(s), ignorecase) /\ re_from(Tail(rest), Tail(s), FALSE, ignorecase)
  ELSE s # <<>> /\ Accepts(atom, Head(s), ignorecase) /\ re_from(rest, Tail(s), FALSE, ignorecase)
re_many(atom, rest, s, ignorecase) ==
  \/ re_from(rest, s, FALSE, ignorecase)
  \/ s # <<>> /\ Accepts(atom, Head(s), ignorecase) /\ re_many(atom, rest, Tail(s), ignorecase)
re_from(pat, s, start, ignorecase) ==
  IF pat = <<>> THEN TRUE
  ELSE IF Head(pat) \in {"(", ")"} THEN re_from(Tail(pat), s, start, ignorecase)
  ELSE IF Head(pat) = "^" THEN start /\ re_from(Tail(pat), s, start, ignorecase)
  ELSE IF Head(pat) = "$" THEN s = <<>> /\ re_from(Tail(pat), s, start, ignorecase)
  ELSE re_atom(Atom(pat), After(pat, Atom(pat).len), s, ignorecase)

\* re.compile raises re.error on an unbalanced parenthesis, an unclosed class,
\* a leading quantifier or a trailing backslash.
Count(pat, c) == Cardinality({i \in 1..Len(pat) : pat[i] = c})
Compiles(pat) ==
  /\ Count(pat, "(") = Count(pat, ")")
  /\ Count(pat, "[") = Count(pat, "]")
  /\ pat # <<>> => Head(pat) \notin {"+", "*", "?"} /\ pat[Len(pat)] # "\\"

\* re.match(pattern, string, flags): the match starts at the first character
\* and may end anywhere.
re_match(pattern, string, ignorecase) ==
  IF ~Compiles(pattern) THEN [raised |-> TRUE, value |-> FALSE]
  ELSE [raised |-> FALSE, value |-> re_from(pattern, string, TRUE, ignorecase)]

\* any(c in self.pattern for c in ['[', ']', '(', ')', '^', '$', '+']).
RegexChars == {"[", "]", "(", ")", "^", "$", "+"}
IsRegex(pattern) == \E i \in 1..Len(pattern) : pattern[i] \in RegexChars

\* _match_pattern with re.match called without re.IGNORECASE.
match_pattern_case_sensitive(pattern, parts) ==
  IF IsRegex(pattern) THEN re_match(pattern, parts[Len(parts)], FALSE)
  ELSE path_match(parts, pattern)

\* Rule._match_pattern on characters: re.match on file_path.name with
\* re.IGNORECASE, or file_path.match(pattern).
match_pattern_on(pattern, parts) ==
  IF IsRegex(pattern) THEN re_match(pattern, parts[Len(parts)], TRUE)
  ELSE path_match(parts, pattern)

\* A rule with one of the patterns is tried on one of the files.
MatchInit ==
  /\ loc = [f \in Files |-> Nowhere]
  /\ ops = <<>>
  /\ nextId = 1
  /\ index = <<>>
  /\ canon = <<>>
  /\ moved = <<>>
  /\ stats = <<>>
  /\ self_stats = [processed |-> 0, duplicates |-> 0, errors |-> 0]
  /\ enable_duplicates = FALSE
  /\ table = <<>>
  /\ last = Quiet("idle")
  /\ calls = 0
  /\ rules_file = load_rules(Absent).file
  /\ rules = load_rules(Absent).rules
  /\ ai_classification = FALSE
  /\ Stopped
  /\ inflight = NoCalls
  /\ probe \in {[stage |-> "rule", pattern |-> pattern, parts |-> parts] :
                  pattern \in MatchPatterns, parts \in MatchPaths}

\* Rule.matches reaches _match_pattern.
MatchPattern ==
  /\ probe.stage = "rule"
  /\ probe' = [stage |-> "matched", pattern |-> probe.pattern, parts |-> probe.parts,
               result |-> match_pattern_on(probe.pattern, probe.parts)]
  /\ UNCHANGED <<loc, ops, nextId, index, canon, moved, stats, self_stats,
                 enable_duplicates, table, last, calls, inflight>>
  /\ UNCHANGED engine
  /\ UNCHANGED window

\* The user edits the pattern of the rule.
EditPattern(pattern) ==
  /\ probe.stage = "matched"
  /\ probe' = [stage |-> "rule", pattern |-> pattern, parts |-> probe.parts]
  /\ UNCHANGED <<loc, ops, nextId, index, canon, moved, stats, self_stats,
                 enable_duplicates, table, last, calls, inflight>>
  /\ UNCHANGED engine
  /\ UNCHANGED window

MatchNext ==
  \/ MatchPattern
  \/ \E pattern \in MatchPatterns : EditPattern(pattern)

MatchSpec == MatchInit /\ [][MatchNext]_vars

\* ---- C32
Ex_GlobPattern == <<"*", "i", "n", "v", "o", "i", "c", "e", "*">>
Ex_GlobName == <<"M", "a", "r", "c", "h", "_", "i", "n", "v", "o", "i", "c", "e", ".", "p", "d", "f">>
Ex_RegexPattern == <<"i", "n", "v", "o", "i", "c", "e", "_", "[", "0", "-", "9", "]", "+", "\\", ".", "p", "d", "f">>
Ex_Digits == <<"i", "n", "v", "o", "i", "c", "e", "_", "4", "2", ".", "p", "d", "f">>
Ex_Letters == <<"i", "n", "v", "o", "i", "c", "e", "_", "a", "b", "c", ".", "p", "d", "f">>
Ex_Upper == <<"I", "N", "V", "O", "I", "C", "E", "_", "7", ".", "P", "D", "F">>
Ex_SlashPattern == <<"w", "a", "t", "c", "h", "/", "*", ".", "t", "x", "t">>
Ex_Txt == <<"a", ".", "t", "x", "t">>

Matched == probe.stage = "matched" /\ ~probe.result.raised
MatchedName == probe.parts[Len(probe.parts)]
HasSlash(pattern) == \E i \in 1..Len(pattern) : pattern[i] = "/"

\* The examples: *invoice* matches March_invoice.pdf; invoice_[0-9]+\.pdf
\* matches invoice_42.pdf and, case ignored, INVOICE_7.PDF, and does not match
\* invoice_abc.pdf.
ExamplesHold ==
  /\ probe.pattern = Ex_GlobPattern /\ MatchedName = Ex_GlobName => probe.result.value
  /\ probe.pattern = Ex_RegexPattern /\ MatchedName \in {Ex_Digits, Ex_Upper} => probe.result.value
  /\ probe.pattern = Ex_RegexPattern /\ MatchedName = Ex_Letters => ~probe.result.value

C33_UndoNeverDestroys ==
  /\ \A f \in Files : loc[f] # Gone
  /\ \A f, g \in Files : f # g /\ loc[f] # Nowhere /\ loc[f] = loc[g] => loc[f] = Gone

\* ---- C34
\* The successful ledger entries of kind duplicate that carry digest h.
DuplicateEntries(h) ==
  {i \in 1..Len(ops) : ops[i].operation_type = "duplicate" /\ ops[i].success = 1
                       /\ ops[i].file_hash = h}

\* The duplicates-found statistic, summed over the categories of the day.
RECURSIVE SumDuplicatesFound(_)
SumDuplicatesFound(S) ==
  IF S = {} THEN 0
  ELSE LET c == CHOOSE x \in S : TRUE
       IN stats[c].duplicates_found + SumDuplicatesFound(S \ {c})

\* FileOrganizer.stats["duplicates"] is raised once on the path that returns
\* "Duplicate detected" and nowhere else: it counts the Duplicate outcomes.
CountersAgree ==
  /\ \A h \in DOMAIN index : index[h].duplicate_count = Cardinality(DuplicateEntries(h))
  /\ SumDuplicatesFound(DOMAIN stats) = self_stats.duplicates

\* C34: for each digest the repeat counter of the duplicate index equals the
\* number of successful duplicate entries carrying it, and the duplicates-found
\* statistic equals the number of Duplicate outcomes; steps in which nothing
\* but the move fails keep it so.
C34_CountersAgree ==
  [][CountersAgree /\ last'.flt \subseteq {"move"} => CountersAgree']_vars

\* ----------------------------------------- undo under continuous monitoring
\* FileWatcher.on_created / on_moved for the file that undo_operation has
\* just moved back into the watched folder: the observer thread takes the
\* event as it takes any other.
RestoredEvent ==
  /\ monitoring
  /\ last.op = "undo" /\ last.outcome = "restored"
  /\ "observer" \notin DOMAIN inflight
  /\ loc[last.file].dir = WatchDir
  /\ calls <= MaxCalls
  /\ inflight' = Put("observer", Call("handler", loc[last.file]))
  /\ UNCHANGED <<loc, ops, nextId, index, canon, moved, stats, self_stats,
                 enable_duplicates, table, last, calls, probe>>
  /\ UNCHANGED engine
  /\ UNCHANGED window

\* The history dialog is used while the continuous worker runs.
RestoreNext ==
  \/ \E f \in Files, nm \in Names : Arrive(f, nm)
  \/ \E p \in WatchPaths : ObserverEvent(p)
  \/ RestoredEvent
  \/ ObserverEnter
  \/ \E flt \in SUBSET SessionFaults : ObserverReturn(flt)
  \/ ShowHistory
  \/ \E row \in 1..MaxCalls, reply \in {"Yes", "No"} : UndoOperation(row, reply, {})

RestoreSpec == Init /\ [][RestoreNext]_vars

\* ---- C35
\* C35: when undo has restored a file into the watched folder under
\* continuous monitoring, the organize call that the watcher's event for the
\* restored file leads to does not move the file: it stays at its original
\* path.
C35_RestoredFileStays ==
  [][last.op = "undo" /\ last.outcome = "restored" /\ monitoring
     /\ last'.op = "organize" /\ last'.file = last.file
     => loc'[last.file] = loc[last.file]]_vars

\* --------------------------------------------------- two calls, one folder
\* Two organizers with the same configuration, each on a watched folder of
\* its own, without duplicate detection: files of one name in the two folders
\* go to the same category folder.  organize_file is split where
\* _get_unique_path has returned and shutil.move has not yet been called.
OtherWatchDir == "inbox"
WatchDirOf(w) == IF w = "w1" THEN WatchDir ELSE OtherWatchDir

OverlapInit ==
  /\ loc = [f \in Files |-> Nowhere]
  /\ ops = <<>>
  /\ nextId = 1
  /\ index = <<>>
  /\ canon = <<>>
  /\ moved = <<>>
  /\ stats = <<>>
  /\ self_stats = [processed |-> 0, duplicates |-> 0, errors |-> 0]
  /\ enable_duplicates = FALSE
  /\ table = <<>>
  /\ last = Quiet("idle")
  /\ calls = 0
  /\ rules_file = load_rules(Absent).file
  /\ rules = load_rules(Absent).rules
  /\ ai_classification \in BOOLEAN
  /\ Monitoring
  /\ Quiescent

\* A producer writes a file into one of the two watched folders.
ArriveIn(f, dir, nm) ==
  /\ loc[f] = Nowhere
  /\ nm \in NamesOf(f)
  /\ ~Exists(loc, MkPath(dir, nm, 0))
  /\ loc' = [loc EXCEPT ![f] = MkPath(dir, nm, 0)]
  /\ last' = Quiet("idle")
  /\ UNCHANGED <<ops, nextId, index, canon, moved, stats, self_stats,
                 enable_duplicates, table, calls>>
  /\ UNCHANGED engine
  /\ UNCHANGED window
  /\ UNCHANGED aside

\* Worker w enters organize_file(p) on a file of its folder: the existence
\* and size checks (an early return ends the call at once), the
\* classification, mkdir and _get_unique_path; the path it returned is kept
\* in `dest`.
OverlapBegin(w, p) ==
  /\ w \notin DOMAIN inflight
  /\ p.dir = WatchDirOf(w)
  /\ Exists(loc, p)
  /\ LET f == FileAt(loc, p)
         dest_path == get_unique_path(loc, MkPath(OrganizedDir(Categorize(f, p.name)), p.name, 0))
     IN IF exceeds_limit(SizeOf(f))
        THEN /\ Returned(w, p, organize_file(p, {}, calls + 1), {})
             /\ inflight' = Put(w, InFlight("done", p, f, None, FALSE, FALSE, "TooLarge")
                                     @@ [dest |-> EmptyPath])
        ELSE /\ inflight' = Put(w, InFlight("move", p, f, None, FALSE, FALSE, "")
                                     @@ [dest |-> dest_path])
             /\ UNCHANGED <<loc, ops, nextId, index, canon, moved, stats, self_stats,
                            last, calls>>
  /\ UNCHANGED <<enable_duplicates, table, probe>>
  /\ UNCHANGED engine
  /\ UNCHANGED window

\* The rest of organize_file from shutil.move(str(file_path), str(dest_path))
\* on: the counter, the log entry, the statistics, the return.
MoveTo(p, f, dest_path, now) ==
  Finish(ShutilMove(loc, f, dest_path), index, canon,
         [self_stats EXCEPT !.processed = @ + 1],
         Entry(p.name, p, dest_path, Categorize(f, p.name), "organize", SizeOf(f), None, TRUE, None),
         f,
         [category |-> Categorize(f, p.name), files_count |-> 1, total_size |-> SizeOf(f),
          duplicates |-> 0, errors |-> 0],
         [success |-> TRUE, message |-> "Moved to " \o Categorize(f, p.name),
          category |-> Categorize(f, p.name), size |-> SizeOf(f)],
         {"move"}, {}, now, 1, 0)

OverlapMove(w) ==
  /\ w \in DOMAIN inflight
  /\ inflight[w].pc = "move"
  /\ Returned(w, inflight[w].path,
              MoveTo(inflight[w].path, inflight[w].f, inflight[w].dest, calls + 1), {})
  /\ inflight' = [inflight EXCEPT ![w].pc = "done", ![w].outcome = "Organized"]
  /\ UNCHANGED <<enable_duplicates, table, probe>>
  /\ UNCHANGED engine
  /\ UNCHANGED window

OverlapNext ==
  \/ \E f \in Files, w \in Workers, nm \in Names : ArriveIn(f, WatchDirOf(w), nm)
  \/ \E w \in Workers, nm \in Names : OverlapBegin(w, MkPath(WatchDirOf(w), nm, 0))
  \/ \E w \in Workers : OverlapMove(w)

OverlapSpec == OverlapInit /\ [][OverlapNext]_vars

\* ---- C36
\* The two calls have returned Organized for files of one name in one
\* destination folder.
BothOrganized ==
  /\ DOMAIN inflight = Workers
  /\ \A w \in Workers : inflight[w].pc = "done" /\ inflight[w].outcome = "Organized"
  /\ inflight["w1"].path.name = inflight["w2"].path.name
  /\ inflight["w1"].dest.dir = inflight["w2"].dest.dir

\* C36: under two overlapping organize calls for same-named files that
\* resolve to the same destination folder, the two files end at distinct
\* destination paths and neither move overwrites the other file.
C36_OverlappingCallsKeepBoth ==
  BothOrganized =>
    /\ loc[inflight["w1"].f] # Gone /\ loc[inflight["w2"].f] # Gone
    /\ loc[inflight["w1"].f] # loc[inflight["w2"].f]
    /\ inflight["w1"].dest # inflight["w2"].dest

\* ------------------------------------------- the tray and the confirmation
\* start_batch_mode asks for confirmation with QMessageBox.question, whose
\* exec() runs an event loop of its own inside the handler: the main window
\* is blocked by the modal box, the tray menu is not, and queued signals of
\* the worker threads are delivered.  A handler called from that loop runs
\* inside start_batch_mode.  The open boxes are kept in `inflight`, innermost
\* last; a batch thread that self.batch_thread no longer refers to is kept
\* there as "orphan".
Boxes == <<"box1", "box2">>
OpenBoxes == {b \in DOMAIN inflight : b \in {Boxes[1], Boxes[2]}}
Depth == Cardinality(OpenBoxes)

\* start_monitoring in batch mode on a folder with files, up to the
\* confirmation box: the organizer is replaced, a session is started, the
\* files are listed.  The Start button starts it while no box is open, the
\* tray's toggle while SystemTrayManager.is_monitoring is False.
OpenConfirm(files) ==
  /\ ~active
  /\ Depth < Len(Boxes)
  /\ "orphan" \notin DOMAIN inflight
  /\ Len(sessions) < MaxSessions
  /\ files \in Enumerations(loc)
  /\ files # <<>>
  /\ self_stats' = [processed |-> 0, duplicates |-> 0, errors |-> 0]
  /\ sessions' = start_session(sessions, "batch", calls + 1, FALSE).sessions
  /\ current_session_id' = start_session(sessions, "batch", calls + 1, FALSE).id
  /\ inflight' = Put(Boxes[Depth + 1], [pc |-> "confirm", files |-> files])
  /\ last' = Quiet("start")
  /\ UNCHANGED <<loc, ops, nextId, index, canon, moved, stats,
                 enable_duplicates, table, calls, probe>>
  /\ UNCHANGED engine
  /\ UNCHANGED <<active, monitoring, batch_thread>>

\* The calls in flight once the innermost box is closed and self.batch_thread
\* has been assigned: a thread still running that it referred to is left on
\* its own.
AfterBox(box, orphaned) ==
  [v \in (DOMAIN inflight \ {box}) \cup (IF orphaned THEN {"orphan"} ELSE {}) |->
     IF v = "orphan" /\ orphaned THEN batch_thread ELSE inflight[v]]

\* The innermost box is answered and start_batch_mode goes on: No returns;
\* Yes creates and starts a BatchOrganizerThread, assigns it to
\* self.batch_thread, and sets the buttons and the tray to the active state.
AnswerConfirm(reply) ==
  /\ Depth > 0
  /\ IF reply = "No"
     THEN /\ inflight' = AfterBox(Boxes[Depth], FALSE)
          /\ UNCHANGED <<active, batch_thread>>
     ELSE /\ inflight' = AfterBox(Boxes[Depth],
                                  batch_thread.exists /\ batch_thread.state = "running")
          /\ batch_thread' = NewBatchThread(inflight[Boxes[Depth]].files, Len(ops))
          /\ active' = TRUE
  /\ last' = Quiet("start")
  /\ UNCHANGED <<loc, ops, nextId, index, canon, moved, stats, self_stats,
                 enable_duplicates, table, calls, probe>>
  /\ UNCHANGED engine
  /\ UNCHANGED <<sessions, current_session_id, monitoring>>

\* One iteration of the loop of a BatchOrganizerThread that nothing refers
\* to any more.
OrphanOrganize(flt) ==
  /\ "orphan" \in DOMAIN inflight
  /\ inflight["orphan"].i < Len(inflight["orphan"].files)
  /\ calls < MaxCalls
  /\ LET p == inflight["orphan"].files[inflight["orphan"].i + 1]
         r == organize_file(p, flt, calls + 1)
     IN /\ flt \subseteq r.consulted
        /\ Returned("orphan", p, r, flt)
        /\ inflight' = [inflight EXCEPT !["orphan"] = BatchIteration(@, r.ret.success)]
  /\ UNCHANGED <<enable_duplicates, table, probe>>
  /\ UNCHANGED engine
  /\ UNCHANGED window

\* Its loop ends: batch_complete is emitted to the window, which cannot tell
\* whose signal it is.
OrphanExit ==
  /\ "orphan" \in DOMAIN inflight
  /\ inflight["orphan"].i = Len(inflight["orphan"].files)
  /\ inflight' = Drop("orphan")
  /\ batch_thread' = [batch_thread EXCEPT !.signal = TRUE]
  /\ last' = Quiet("idle")
  /\ UNCHANGED <<loc, ops, nextId, index, canon, moved, stats, self_stats,
                 enable_duplicates, table, calls, probe>>
  /\ UNCHANGED engine
  /\ UNCHANGED <<sessions, current_session_id, active, monitoring>>

TrayNext ==
  \/ \E f \in Files, nm \in Names : Arrive(f, nm)
  \/ \E files \in Enumerations(loc) :
       Depth = 0 /\ StartMonitoring("continuous", files, "Yes", FALSE)
  \/ \E p \in WatchPaths, flt \in SUBSET SessionFaults : ContinuousOrganize(p, flt)
  \/ \E files \in Enumerations(loc) : OpenConfirm(files)
  \/ \E reply \in Replies : AnswerConfirm(reply)
  \/ \E flt \in SUBSET SessionFaults : BatchOrganize(flt)
  \/ \E flt \in SUBSET SessionFaults : OrphanOrganize(flt)
  \/ BatchExit
  \/ OrphanExit
  \/ OnBatchComplete
  \/ StopMonitoring

TraySpec == SessionInit /\ [][TrayNext]_vars

\* ---- C37
\* The organizing workers that are active: the continuous monitor, the batch
\* thread of self.batch_thread while its loop runs, and a batch thread left
\* on its own.
ActiveWorkers ==
  (IF monitoring THEN 1 ELSE 0)
  + (IF batch_thread.exists /\ batch_thread.state = "running" THEN 1 ELSE 0)
  + (IF "orphan" \in DOMAIN inflight THEN 1 ELSE 0)

\* C37: under any sequence of start, stop, tray-toggle and batch-completion
\* events at most one organizing worker is active at a time, and no start
\* request creates a second worker or leaves a running one on its own.
C37_AtMostOneWorker ==
  /\ ActiveWorkers <= 1
  /\ "orphan" \notin DOMAIN inflight

\* ------------------------------------------------- sessions and their count
\* The window of CancelSpec with duplicate detection on or off.
CountInit ==
  /\ loc = [f \in Files |-> IF f = "f3" THEN MkPath(WatchDir, "big.mp4", 0) ELSE Nowhere]
  /\ ops = <<>>
  /\ nextId = 1
  /\ index = <<>>
  /\ canon = <<>>
  /\ moved = <<>>
  /\ stats = <<>>
  /\ self_stats = [processed |-> 0, duplicates |-> 0, errors |-> 0]
  /\ enable_duplicates \in BOOLEAN
  /\ table = <<>>
  /\ last = Quiet("idle")
  /\ calls = 0
  /\ rules_file = load_rules(Absent).file
  /\ rules = load_rules(Absent).rules
  /\ ai_classification = FALSE
  /\ Stopped
  /\ Quiescent

CountSpec == CountInit /\ [][CancelNext]_vars

\* ---- C38
\* The ledger entries of the organize calls made during session s: those
\* logged from its start on and before its end.
CallsDuring(s) ==
  {i \in 1..Len(ops) : /\ ops[i].operation_type \in {"organize", "duplicate"}
                       /\ s.start_time <= ops[i].timestamp
                       /\ ops[i].timestamp < s.end_time}

\* C38: the files-processed count stored when a session is ended is the
\* number of organize calls made during the session that ended Organized or
\* Duplicate; calls that ended NotFound, TooLarge or Error do not count.
C38_SessionCountsSuccesses ==
  \A k \in 1..Len(sessions) :
    sessions[k].status = "completed" =>
      sessions[k].files_processed =
        Cardinality({i \in CallsDuring(sessions[k]) : ops[i].success = 1})

\* The calls of the running session that have returned Organized or Duplicate.
ReturnedDuring(s) ==
  {i \in 1..Len(ops) : /\ ops[i].operation_type \in {"organize", "duplicate"}
                       /\ ops[i].success = 1
                       /\ s.start_time <= ops[i].timestamp}

\* C38 (amended): the files-processed count stored when a session is ended is
\* the number of organize calls made during the session that returned
\* Organized or Duplicate, plus at most one for a batch call that the forced
\* termination of the worker cut short; without such a call it is exactly
\* that number.
C38_CountsSuccessesOrCutCall ==
  [][\A k \in 1..Len(sessions) :
       sessions[k].status = "active" /\ sessions'[k].status = "completed" =>
         LET n == Cardinality(ReturnedDuring(sessions[k]))
         IN sessions'[k].files_processed \in
              (IF "batch" \in DOMAIN inflight THEN {n, n + 1} ELSE {n})]_vars

\* C38 witness: a session has been ended during which one call failed and
\* one ended Duplicate; its stored count is 1.
C38_Witness ==
  \E k \in 1..Len(sessions) :
    /\ sessions[k].status = "completed"
    /\ sessions[k].files_processed = 1
    /\ \E i, j \in CallsDuring(sessions[k]) :
         /\ ops[i].success = 0
         /\ ops[j].success = 1 /\ ops[j].operation_type = "duplicate"

====
